---- MODULE Spec2Model ----
(***************************************************************************)
(* The statistics engine of gogrowatt (internal/stats), its callers, the   *)
(* range fetches and the throttle of the API client (pkg/growatt), and the *)
(* plant ID resolution and the output files of cmd/growatt-export.         *)
(*                                                                         *)
(* float64 values are modelled bit for bit: a finite float64 is the record *)
(* [s, m, e] of its sign, its odd significand of at most 53 bits (a list   *)
(* of limbs) and its exponent, and +, -, * and / round to the nearest      *)
(* float64, ties to even, as IEEE 754 does.  Infinities, NaN, subnormals   *)
(* and the sign of zero are out of reach of the values of the model and    *)
(* are left out.  math.Sqrt is kept as the root of its float64 radicand:   *)
(* Sqrt(q) is the root of q, so the float 0 stored in a StdDev field is    *)
(* Sqrt(Zero).  A nil pointer is the record Nil.                           *)
(***************************************************************************)
EXTENDS Integers, Sequences, FiniteSets, TLC

VARIABLES
    h,          \* a bucket driven directly by a caller (*HourlyStats)
    finalized,  \* whether Finalize has been called on h since it was created
    data,       \* the argument of the last AggregateToHourly call
    stats,      \* the result of the last AggregateToHourly call
    pdIdx,      \* run: number of elements of powerData consumed by the loop
    powerData,  \* run: the parsed sample lists of the days consumed so far
    days,       \* run: dailyStats, the non-nil results collected so far
    multiDay,   \* the result of the last AggregateDays call
    aggCalls,   \* number of AggregateDays calls made so far
    rows,       \* the result of the last GetHourlyRows call
    op,         \* the last operation of the package that was called
    fnValues,   \* the slice a caller passed to CalculateStdDev / CalculateMedian
    fnMean,     \* the mean argument of the last CalculateStdDev call
    fnAfter,    \* the caller's slice as it is after that call returned
    fnResult,   \* the value that call returned
    rangeFn,    \* the range fetch in progress or last made
    from,       \* range fetch: its from argument
    to,         \* range fetch: its to argument
    current,    \* range fetch: the loop variable current
    results,    \* range fetch: the records appended so far / returned
    requests,   \* the day-fetches issued so far: the date parameter of each
    rangeErr,   \* range fetch: the error returned
    ctxDone,    \* whether the caller's context is cancelled
    rpc,        \* range fetch: "idle", "check", "fetch" or "returned"
    rateLimit,  \* Client.rateLimit
    lastCall,   \* Client.lastCall (0 is the zero time.Time)
    now,        \* the clock read by time.Now and time.Since
    calls,      \* the requests made through the client, in order
    conn,       \* the position of each caller in its request of the client
    pid,        \* the resolvePlantID call in progress or last made
    export,     \* the run of growatt-export in progress or last made
    hourly,     \* the AggregateToHourly call followed statement by statement
    heap,       \* the objects allocated so far; a pointer is an index, 0 is nil
    frame,      \* the AggregateDays call followed statement by statement
    fused       \* whether this build fuses x*y + z into one rounded operation

\* the state of the statistics package and of run, of a direct call of the
\* two pure functions, and of a range fetch
statsVars == <<h, finalized, data, stats, pdIdx, powerData, days, multiDay,
               aggCalls, rows, op>>
fnVars == <<fnValues, fnMean, fnAfter, fnResult>>
rangeVars == <<rangeFn, from, to, current, results, requests, rangeErr,
               ctxDone, rpc>>
\* the state of a client and its clock, of the command line tool, and of an
\* AggregateToHourly or AggregateDays call in progress
clientVars == <<rateLimit, lastCall, now, calls, conn>>
cliVars == <<pid, export>>
stepVars == <<hourly, heap, frame>>
\* the build of the program
buildVars == <<fused>>

vars == <<h, finalized, data, stats, pdIdx, powerData, days, multiDay,
          aggCalls, rows, op, fnValues, fnMean, fnAfter, fnResult,
          rangeFn, from, to, current, results, requests, rangeErr,
          ctxDone, rpc, rateLimit, lastCall, now, calls, conn, pid, export,
          hourly, heap, frame,
          fused>>

-----------------------------------------------------------------------------
(* Bounds of the model *)

\* longest sample list handed to AggregateToHourly
MaxSamples == 3
\* number of days of the requested range in run
MaxDays == 3
\* most samples aggregated over the days of one range
MaxRunSamples == 3
\* most AddValue calls on the directly driven bucket
MaxAdds == 3
\* most AggregateDays calls in one behaviour
MaxCalls == 2
\* longest list handed directly to CalculateStdDev or CalculateMedian
MaxValues == 4
\* most requests made through one client
MaxRequests == 2
\* the clock value up to which time passes between two requests
MaxTime == 2
\* most plants in the plant list of an account
MaxPlants == 2
\* most AggregateDays calls followed statement by statement in one behaviour
MaxAggCalls == 3
\* longest list of days handed to such a call
MaxListed == 2

-----------------------------------------------------------------------------
(* float64 *)

Abs(n) == IF n < 0 THEN -n ELSE n

\* natural numbers of any size: the limbs of base 2^15, lowest first, the
\* highest not 0 (0 is the empty sequence)
LimbBits == 15
Base == 2 ^ LimbBits

RECURSIVE BTrim(_)
BTrim(a) ==
    IF Len(a) > 0 /\ a[Len(a)] = 0 THEN BTrim(SubSeq(a, 1, Len(a) - 1)) ELSE a

Limb(a, i) == IF i <= Len(a) THEN a[i] ELSE 0

RECURSIVE BAddFrom(_, _, _, _)
BAddFrom(a, b, i, carry) ==
    IF i > Len(a) /\ i > Len(b)
    THEN (IF carry = 0 THEN <<>> ELSE <<carry>>)
    ELSE LET s == Limb(a, i) + Limb(b, i) + carry
         IN  <<s % Base>> \o BAddFrom(a, b, i + 1, s \div Base)

BAdd(a, b) == BAddFrom(a, b, 1, 0)

\* a - b for a >= b
RECURSIVE BSubFrom(_, _, _, _)
BSubFrom(a, b, i, borrow) ==
    IF i > Len(a) THEN <<>>
    ELSE LET d == Limb(a, i) - Limb(b, i) - borrow
         IN  <<d % Base>> \o BSubFrom(a, b, i + 1, IF d < 0 THEN 1 ELSE 0)

BSub(a, b) == BTrim(BSubFrom(a, b, 1, 0))

\* -1, 0 or 1 as a < b, a = b or a > b
RECURSIVE BCmpAt(_, _, _)
BCmpAt(a, b, i) ==
    IF i = 0 THEN 0
    ELSE IF a[i] < b[i] THEN -1
    ELSE IF a[i] > b[i] THEN 1
    ELSE BCmpAt(a, b, i - 1)

BCmp(a, b) ==
    IF Len(a) < Len(b) THEN -1
    ELSE IF Len(a) > Len(b) THEN 1
    ELSE BCmpAt(a, b, Len(a))

\* a * s for 0 <= s <= Base
RECURSIVE BMulSmallFrom(_, _, _, _)
BMulSmallFrom(a, s, i, carry) ==
    IF i > Len(a) THEN (IF carry = 0 THEN <<>> ELSE <<carry>>)
    ELSE LET p == (a[i] * s) + carry
         IN  <<p % Base>> \o BMulSmallFrom(a, s, i + 1, p \div Base)

BMulSmall(a, s) == BTrim(BMulSmallFrom(a, s, 1, 0))

\* a * Base^n
BShiftLimbs(a, n) == IF Len(a) = 0 THEN a ELSE [i \in 1 .. n |-> 0] \o a

RECURSIVE BMulFrom(_, _, _)
BMulFrom(a, b, i) ==
    IF i > Len(b) THEN <<>>
    ELSE BAdd(BShiftLimbs(BMulSmall(a, b[i]), i - 1), BMulFrom(a, b, i + 1))

BMul(a, b) == BMulFrom(a, b, 1)

\* a * 2^k
BShl(a, k) == BShiftLimbs(BMulSmall(a, 2 ^ (k % LimbBits)), k \div LimbBits)

\* quotient and remainder of a by d, 0 < d <= Base, from the highest limb
RECURSIVE BDivSmallAt(_, _, _, _)
BDivSmallAt(a, d, i, r) ==
    IF i = 0 THEN [q |-> <<>>, r |-> r]
    ELSE LET cur == (r * Base) + a[i]
             rest == BDivSmallAt(a, d, i - 1, cur % d)
         IN  [q |-> Append(rest.q, cur \div d), r |-> rest.r]

BDivSmall(a, d) ==
    LET x == BDivSmallAt(a, d, Len(a), 0)
    IN  [q |-> BTrim(x.q), r |-> x.r]

\* a \div 2^k, and whether a bit that is 1 was shifted out
BShr(a, k) ==
    LET n == k \div LimbBits
        low == SubSeq(a, 1, IF n < Len(a) THEN n ELSE Len(a))
        high == SubSeq(a, n + 1, Len(a))
        x == BDivSmall(high, 2 ^ (k % LimbBits))
    IN  [q |-> x.q,
         sticky |-> x.r # 0 \/ \E i \in 1 .. Len(low) : low[i] # 0]

\* number of bits of n >= 0 and of a
RECURSIVE BitsOf(_)
BitsOf(n) == IF n = 0 THEN 0 ELSE 1 + BitsOf(n \div 2)

BitLen(a) ==
    IF Len(a) = 0 THEN 0 ELSE (LimbBits * (Len(a) - 1)) + BitsOf(a[Len(a)])

BIsOdd(a) == Len(a) > 0 /\ a[1] % 2 = 1

\* number of 0 bits below the lowest 1 bit of n > 0 and of a # 0
RECURSIVE LowZeros(_)
LowZeros(n) == IF n % 2 = 1 THEN 0 ELSE 1 + LowZeros(n \div 2)

RECURSIVE BLowZerosFrom(_, _)
BLowZerosFrom(a, i) ==
    IF a[i] = 0 THEN LimbBits + BLowZerosFrom(a, i + 1) ELSE LowZeros(a[i])

BLowZeros(a) == BLowZerosFrom(a, 1)

\* the limbs of n >= 0
RECURSIVE BOfInt(_)
BOfInt(n) == IF n = 0 THEN <<>> ELSE <<n % Base>> \o BOfInt(n \div Base)

\* a finite float64 is [s, m, e]: sign s (0 for 0), odd significand m of at
\* most 53 bits and exponent e, of value s * m * 2^e
MantBits == 53

Zero == [s |-> 0, m |-> <<>>, e |-> 0]

\* the number s * m * 2^e with its significand made odd
Exact(s, m, e) ==
    IF Len(m) = 0 \/ s = 0 THEN Zero
    ELSE LET z == BLowZeros(m)
         IN  [s |-> s, m |-> BShr(m, z).q, e |-> e + z]

\* the float64 nearest to s * m * 2^e, ties to even
Round(s, m, e) ==
    LET len == BitLen(m)
    IN  IF len <= MantBits THEN Exact(s, m, e)
        ELSE LET k == len - MantBits
                 sh == BShr(m, k - 1)
                 q == BShr(sh.q, 1).q
                 up == BIsOdd(sh.q) /\ (sh.sticky \/ BIsOdd(q))
             IN  Exact(s, IF up THEN BAdd(q, <<1>>) ELSE q, e + k)

\* a + b as a number, not rounded
ExactAdd(a, b) ==
    IF a.s = 0 THEN b
    ELSE IF b.s = 0 THEN a
    ELSE LET e == IF a.e < b.e THEN a.e ELSE b.e
             ma == BShl(a.m, a.e - e)
             mb == BShl(b.m, b.e - e)
             c == BCmp(ma, mb)
         IN  IF a.s = b.s THEN [s |-> a.s, m |-> BAdd(ma, mb), e |-> e]
             ELSE IF c = 0 THEN Zero
             ELSE IF c > 0 THEN [s |-> a.s, m |-> BSub(ma, mb), e |-> e]
             ELSE [s |-> b.s, m |-> BSub(mb, ma), e |-> e]

\* a * b as a number, not rounded
ExactMul(a, b) ==
    IF a.s = 0 \/ b.s = 0 THEN Zero
    ELSE [s |-> a.s * b.s, m |-> BMul(a.m, b.m), e |-> a.e + b.e]

RNeg(a) == [a EXCEPT !.s = -a.s]

\* float64(n) of an int n
Rat(n) == Exact(IF n < 0 THEN -1 ELSE 1, BOfInt(Abs(n)), 0)

RoundOf(x) == Round(x.s, x.m, x.e)

\* a + b, a - b, a * b on float64
RAdd(a, b) == RoundOf(ExactAdd(a, b))
RSub(a, b) == RoundOf(ExactAdd(a, RNeg(b)))
RMul(a, b) == RoundOf(ExactMul(a, b))
\* x*y + z computed as one fused operation
FMA(x, y, z) == RoundOf(ExactAdd(ExactMul(x, y), z))

\* a / float64(k), k a count > 0 (or the constant 1000.0)
GuardBits == 70
RDivInt(a, k) ==
    IF a.s = 0 THEN Zero
    ELSE LET x == BDivSmall(BShl(a.m, GuardBits), k)
             m == BAdd(BShl(x.q, 1), IF x.r # 0 THEN <<1>> ELSE <<>>)
         IN  Round(a.s, m, a.e - GuardBits - 1)

\* the position above the highest bit of a # 0
Top(a) == a.e + BitLen(a.m)

\* |a| < |b| for a, b # 0
MagLt(a, b) ==
    IF Top(a) # Top(b) THEN Top(a) < Top(b)
    ELSE LET e == IF a.e < b.e THEN a.e ELSE b.e
         IN  BCmp(BShl(a.m, a.e - e), BShl(b.m, b.e - e)) < 0

\* a < b and a > b on float64
RLt(a, b) ==
    IF a.s # b.s THEN a.s < b.s
    ELSE IF a.s = 0 THEN FALSE
    ELSE IF a.s > 0 THEN MagLt(a, b)
    ELSE MagLt(b, a)
RGt(a, b) == RLt(b, a)
RLe(a, b) == ~RLt(b, a)

\* math.MaxFloat64 = (2^53 - 1) * 2^971
MaxFloat64 == [s |-> 1, m |-> <<Base - 1, Base - 1, Base - 1, 255>>, e |-> 971]
NegMaxFloat64 == RNeg(MaxFloat64)

\* math.Sqrt(q), kept as the root of the float64 q
Sqrt(q) == [sqrtOf |-> q]

\* a nil pointer / nil slice result
Nil == [nil |-> TRUE]

\* hours of a day: the indices of DailyStats.Hours and MultiDayStats.ByHour
HoursPerDay == 24
HourIdx == 0 .. (HoursPerDay - 1)

-----------------------------------------------------------------------------
(* HourlyStats *)

NewHourlyStats(hour) ==
    [Hour |-> hour, Samples |-> 0, Min |-> MaxFloat64, Max |-> NegMaxFloat64,
     Sum |-> Zero, Mean |-> Zero, StdDev |-> Sqrt(Zero), Values |-> <<>>]

\* AddValue with the comparison of the running minimum reversed
AddValueMinReversed(b, power) ==
    [b EXCEPT !.Samples = @ + 1,
              !.Sum = RAdd(@, power),
              !.Values = Append(@, power),
              !.Min = IF RGt(power, @) THEN power ELSE @,
              !.Max = IF RGt(power, @) THEN power ELSE @]

\* AddValue keeping the value added last as the maximum
AddValueLastMax(b, power) ==
    [b EXCEPT !.Samples = @ + 1,
              !.Sum = RAdd(@, power),
              !.Values = Append(@, power),
              !.Min = IF RLt(power, @) THEN power ELSE @,
              !.Max = power]

AddValue(b, power) ==
    [b EXCEPT !.Samples = @ + 1,
              !.Sum = RAdd(@, power),
              !.Values = Append(@, power),
              !.Min = IF RLt(power, @) THEN power ELSE @,
              !.Max = IF RGt(power, @) THEN power ELSE @]

\* sumSquares += diff * diff: the product is rounded and then added, or, in
\* a build that fuses the two operations, the exact product is added and the
\* sum rounded once
AddSquare(sumSquares, diff) ==
    IF fused THEN FMA(diff, diff, sumSquares)
    ELSE RAdd(sumSquares, RMul(diff, diff))

\* the loop of CalculateStdDev over values[k..], sumSquares so far
RECURSIVE SumSquares(_, _, _, _)
SumSquares(values, mean, k, sumSquares) ==
    IF k > Len(values) THEN sumSquares
    ELSE SumSquares(values, mean, k + 1,
                    AddSquare(sumSquares, RSub(values[k], mean)))

\* CalculateStdDev as the population deviation: the guard admits one value
\* and the sum is divided by n
CalculateStdDevPopulation(values, mean) ==
    IF Len(values) < 1 THEN Sqrt(Zero)
    ELSE Sqrt(RDivInt(SumSquares(values, mean, 1, Zero), Len(values)))

CalculateStdDev(values, mean) ==
    IF Len(values) < 2 THEN Sqrt(Zero)
    ELSE Sqrt(RDivInt(SumSquares(values, mean, 1, Zero), Len(values) - 1))

\* Finalize without the normalisation of an empty bucket
FinalizeNoNormalize(b) ==
    IF b.Samples = 0
    THEN b
    ELSE LET mean == RDivInt(b.Sum, b.Samples)
         IN  [b EXCEPT !.Mean = mean,
                       !.StdDev = CalculateStdDev(b.Values, mean)]

\* Finalize dividing the sum by one more than the number of samples
FinalizeMeanOffByOne(b) ==
    IF b.Samples = 0
    THEN [b EXCEPT !.Min = Zero, !.Max = Zero]
    ELSE LET mean == RDivInt(b.Sum, b.Samples + 1)
         IN  [b EXCEPT !.Mean = mean,
                       !.StdDev = CalculateStdDev(b.Values, mean)]

Finalize(b) ==
    IF b.Samples = 0
    THEN [b EXCEPT !.Min = Zero, !.Max = Zero]
    ELSE LET mean == RDivInt(b.Sum, b.Samples)
         IN  [b EXCEPT !.Mean = mean,
                       !.StdDev = CalculateStdDev(b.Values, mean)]

-----------------------------------------------------------------------------
(* Dates *)

\* time.Time values are records [Year, Month, Day] (ParsePowerData yields
\* midnight of the day); Format("2006-01-02") renders them as ten characters
DigitChars == <<"0", "1", "2", "3", "4", "5", "6", "7", "8", "9">>
Digit(n) == DigitChars[(n % 10) + 1]

FormatDate(t) ==
    << Digit(t.Year \div 1000), Digit(t.Year \div 100), Digit(t.Year \div 10),
       Digit(t.Year), "-", Digit(t.Month \div 10), Digit(t.Month), "-",
       Digit(t.Day \div 10), Digit(t.Day) >>

\* time.Parse("2006-01-02", s) of a string rendered by FormatDate: the
\* number of each digit is its place in DigitChars, the clock is midnight
DigitValue(c) == (CHOOSE i \in 1 .. 10 : DigitChars[i] = c) - 1

ParseDate(str) ==
    [Year |-> (1000 * DigitValue(str[1])) + (100 * DigitValue(str[2]))
                + (10 * DigitValue(str[3])) + DigitValue(str[4]),
     Month |-> (10 * DigitValue(str[6])) + DigitValue(str[7]),
     Day |-> (10 * DigitValue(str[9])) + DigitValue(str[10]),
     Hour |-> 0]

\* the calendar of package time
IsLeap(year) == (year % 4 = 0) /\ ((year % 100 # 0) \/ (year % 400 = 0))

DaysIn(year, month) ==
    IF month = 2 THEN (IF IsLeap(year) THEN 29 ELSE 28)
    ELSE IF month \in {4, 6, 9, 11} THEN 30 ELSE 31

\* t.AddDate(0, 0, 1) of a time [Year, Month, Day, Hour] in UTC: the next
\* calendar day at the same clock time
AddDate(t) ==
    IF t.Day < DaysIn(t.Year, t.Month) THEN [t EXCEPT !.Day = @ + 1]
    ELSE IF t.Month < 12 THEN [t EXCEPT !.Month = @ + 1, !.Day = 1]
    ELSE [t EXCEPT !.Year = @ + 1, !.Month = 1, !.Day = 1]

\* n times AddDate(0, 0, 1)
RECURSIVE AddDays(_, _)
AddDays(t, n) == IF n = 0 THEN t ELSE AddDays(AddDate(t), n - 1)

\* the time.Time of the date at the full hour hour
ClockOn(date, hour) ==
    [Year |-> date.Year, Month |-> date.Month, Day |-> date.Day, Hour |-> hour]

\* t.After(u): t is a later instant than u
After(t, u) ==
    \/ t.Year > u.Year
    \/ t.Year = u.Year /\ t.Month > u.Month
    \/ t.Year = u.Year /\ t.Month = u.Month /\ t.Day > u.Day
    \/ t.Year = u.Year /\ t.Month = u.Month /\ t.Day = u.Day /\ t.Hour > u.Hour

-----------------------------------------------------------------------------
(* AggregateToHourly *)

\* InitHours with every bucket labelled one hour late
InitHoursShifted == [i \in HourIdx |-> NewHourlyStats((i + 1) % HoursPerDay)]

\* "Initialize all hours"
InitHours == [i \in HourIdx |-> NewHourlyStats(i)]

\* AddSample with the hour wrapped into 0..23 instead of being checked
AddSampleWrapped(hours, p) ==
    [hours EXCEPT ![p.Hour % HoursPerDay] = AddValue(@, p.Power)]

\* the body of "Add values to appropriate hours" for one sample p
AddSample(hours, p) ==
    IF p.Hour >= 0 /\ p.Hour < HoursPerDay
    THEN [hours EXCEPT ![p.Hour] = AddValue(@, p.Power)]
    ELSE hours

\* the loop over data[k..]
RECURSIVE AddSamples(_, _, _)
AddSamples(hours, d, k) ==
    IF k > Len(d) THEN hours
    ELSE AddSamples(AddSample(hours, d[k]), d, k + 1)

\* "Finalize all hours"
FinalizeHours(hours) == [i \in HourIdx |-> Finalize(hours[i])]

\* AggregateToHourly returning an object of empty buckets for an empty list
AggregateToHourlyZeros(d) ==
    IF Len(d) = 0 THEN [Date |-> <<>>, Hours |-> FinalizeHours(InitHours)]
    ELSE [Date |-> FormatDate(d[1].Date),
          Hours |-> FinalizeHours(AddSamples(InitHours, d, 1))]

AggregateToHourly(d) ==
    IF Len(d) = 0 THEN Nil
    ELSE [Date |-> FormatDate(d[1].Date),
          Hours |-> FinalizeHours(AddSamples(InitHours, d, 1))]

-----------------------------------------------------------------------------
(* CalculateMedian *)

\* sort.Float64s: ascending order, by insertion
RECURSIVE InsertSorted(_, _)
InsertSorted(sorted, v) ==
    IF Len(sorted) = 0 THEN <<v>>
    ELSE IF RLt(v, Head(sorted)) THEN <<v>> \o sorted
    ELSE <<Head(sorted)>> \o InsertSorted(Tail(sorted), v)

RECURSIVE SortFloat64s(_)
SortFloat64s(values) ==
    IF Len(values) = 0 THEN <<>>
    ELSE InsertSorted(SortFloat64s(Tail(values)), Head(values))

\* CalculateMedian without the sort of the copy
CalculateMedianUnsorted(values) ==
    IF Len(values) = 0 THEN Zero
    ELSE LET sorted == values
             n == Len(sorted)
         IN  IF n % 2 = 0
             THEN RDivInt(RAdd(sorted[n \div 2], sorted[(n \div 2) + 1]), 2)
             ELSE sorted[(n \div 2) + 1]

CalculateMedian(values) ==
    IF Len(values) = 0 THEN Zero
    ELSE LET sorted == SortFloat64s(values)
             n == Len(sorted)
         IN  IF n % 2 = 0
             THEN RDivInt(RAdd(sorted[n \div 2], sorted[(n \div 2) + 1]), 2)
             ELSE sorted[(n \div 2) + 1]

-----------------------------------------------------------------------------
(* AggregateDays *)

\* "Initialize hourly aggregates"
InitByHour ==
    [i \in HourIdx |->
        [Hour |-> i, SampleDays |-> 0, Min |-> MaxFloat64, Max |-> NegMaxFloat64,
         Average |-> Zero, Median |-> Zero, StdDev |-> Sqrt(Zero), Values |-> <<>>]]

\* FoldHour without the skip of buckets that hold no sample
FoldHourNoSkip(agg, hourStats) ==
    IF hourStats = Nil THEN agg
    ELSE [agg EXCEPT !.SampleDays = @ + 1,
                     !.Min = IF RLt(hourStats.Min, @) THEN hourStats.Min ELSE @,
                     !.Max = IF RGt(hourStats.Max, @) THEN hourStats.Max ELSE @,
                     !.Values = Append(@, hourStats.Mean)]

\* FoldHour storing the day's sum of samples instead of the day's mean
FoldHourSum(agg, hourStats) ==
    IF hourStats = Nil \/ hourStats.Samples = 0 THEN agg
    ELSE [agg EXCEPT !.SampleDays = @ + 1,
                     !.Min = IF RLt(hourStats.Min, @) THEN hourStats.Min ELSE @,
                     !.Max = IF RGt(hourStats.Max, @) THEN hourStats.Max ELSE @,
                     !.Values = Append(@, hourStats.Sum)]

\* FoldHour putting the day's mean at the front of the list
FoldHourPrepend(agg, hourStats) ==
    IF hourStats = Nil \/ hourStats.Samples = 0 THEN agg
    ELSE [agg EXCEPT !.SampleDays = @ + 1,
                     !.Min = IF RLt(hourStats.Min, @) THEN hourStats.Min ELSE @,
                     !.Max = IF RGt(hourStats.Max, @) THEN hourStats.Max ELSE @,
                     !.Values = <<hourStats.Mean>> \o @]

\* one (day, hour) step of "Aggregate data from all days"
FoldHour(agg, hourStats) ==
    IF hourStats = Nil \/ hourStats.Samples = 0 THEN agg
    ELSE [agg EXCEPT !.SampleDays = @ + 1,
                     !.Min = IF RLt(hourStats.Min, @) THEN hourStats.Min ELSE @,
                     !.Max = IF RGt(hourStats.Max, @) THEN hourStats.Max ELSE @,
                     !.Values = Append(@, hourStats.Mean)]

\* the loop over ds[k..]
RECURSIVE FoldDays(_, _, _)
FoldDays(byHour, ds, k) ==
    IF k > Len(ds) THEN byHour
    ELSE FoldDays([i \in HourIdx |-> FoldHour(byHour[i], ds[k].Hours[i])], ds, k + 1)

\* the loop "sum += v" over values[k..], sum so far
RECURSIVE SumValues(_, _, _)
SumValues(values, k, sum) ==
    IF k > Len(values) THEN sum
    ELSE SumValues(values, k + 1, RAdd(sum, values[k]))

\* FinalizeAgg without the normalisation of an hour no day contributed to
FinalizeAggNoNormalize(agg) ==
    IF agg.SampleDays = 0
    THEN agg
    ELSE LET average == RDivInt(SumValues(agg.Values, 1, Zero), Len(agg.Values))
         IN  [agg EXCEPT !.Average = average,
                         !.Median = CalculateMedian(agg.Values),
                         !.StdDev = CalculateStdDev(agg.Values, average)]

\* FinalizeAgg normalising only Max of an hour no day contributed to
FinalizeAggMaxOnly(agg) ==
    IF agg.SampleDays = 0
    THEN [agg EXCEPT !.Max = Zero]
    ELSE LET average == RDivInt(SumValues(agg.Values, 1, Zero), Len(agg.Values))
         IN  [agg EXCEPT !.Average = average,
                         !.Median = CalculateMedian(agg.Values),
                         !.StdDev = CalculateStdDev(agg.Values, average)]

\* "Calculate final statistics for each hour", without the peak tracking
FinalizeAgg(agg) ==
    IF agg.SampleDays = 0
    THEN [agg EXCEPT !.Min = Zero, !.Max = Zero]
    ELSE LET average == RDivInt(SumValues(agg.Values, 1, Zero), Len(agg.Values))
         IN  [agg EXCEPT !.Average = average,
                         !.Median = CalculateMedian(agg.Values),
                         !.StdDev = CalculateStdDev(agg.Values, average)]

\* PeakUpdates with >= in place of >
PeakUpdatesGe(agg, maxAvg) ==
    agg.SampleDays # 0 /\ RLe(maxAvg, agg.Average)

\* the peak tracking of the same loop: whether the hour with aggregate agg
\* replaces the peak found so far (hours without samples are skipped)
PeakUpdates(agg, maxAvg) ==
    agg.SampleDays # 0 /\ RGt(agg.Average, maxAvg)

\* the scan of the hours hour..23 in ascending order; acc holds maxAvg and
\* the PeakHour and PeakPowerAvg fields of the result
RECURSIVE PeakScan(_, _, _)
PeakScan(acc, byHour, hour) ==
    IF hour >= HoursPerDay THEN acc
    ELSE IF PeakUpdates(byHour[hour], acc.maxAvg)
         THEN PeakScan([maxAvg |-> byHour[hour].Average, PeakHour |-> hour,
                        PeakPowerAvg |-> byHour[hour].Average], byHour, hour + 1)
         ELSE PeakScan(acc, byHour, hour + 1)

\* watts over one hour to kWh
WattsPerKilowatt == 1000

\* the hours of a day whose bucket is not nil and has a Mean other than 0,
\* in ascending order: the other hours add 0 to dailyEnergy, which leaves a
\* float64 sum as it is
EnergyHours(day) ==
    SelectSeq([i \in 1 .. HoursPerDay |-> i - 1],
              LAMBDA hour : day.Hours[hour] # Nil /\ day.Hours[hour].Mean # Zero)

\* DailyEnergy without the conversion from watts to kilowatts
RECURSIVE DailyEnergyWatts(_, _, _)
DailyEnergyWatts(day, k, dailyEnergy) ==
    IF k > Len(EnergyHours(day)) THEN dailyEnergy
    ELSE DailyEnergyWatts(day, k + 1,
            RAdd(dailyEnergy, day.Hours[EnergyHours(day)[k]].Mean))

\* the loop over the hours of one day, from the k-th hour that adds
\* something on, dailyEnergy so far: "dailyEnergy += Mean / 1000.0"
RECURSIVE DailyEnergy(_, _, _)
DailyEnergy(day, k, dailyEnergy) ==
    IF k > Len(EnergyHours(day)) THEN dailyEnergy
    ELSE DailyEnergy(day, k + 1,
            RAdd(dailyEnergy,
                 RDivInt(day.Hours[EnergyHours(day)[k]].Mean, WattsPerKilowatt)))

\* TotalProduction with the loop over the days starting at the second day
RECURSIVE TotalProductionFromSecond(_, _, _)
TotalProductionFromSecond(ds, k, total) ==
    IF k > Len(ds) THEN total
    ELSE TotalProductionFromSecond(ds, k + 1,
            IF k = 1 THEN total ELSE RAdd(total, DailyEnergy(ds[k], 1, Zero)))

\* the loop over the days ds[k..], result.TotalProduction so far
RECURSIVE TotalProduction(_, _, _)
TotalProduction(ds, k, total) ==
    IF k > Len(ds) THEN total
    ELSE TotalProduction(ds, k + 1, RAdd(total, DailyEnergy(ds[k], 1, Zero)))

AggregateDays(ds) ==
    IF Len(ds) = 0 THEN Nil
    ELSE LET folded == FoldDays(InitByHour, ds, 1)
             byHour == [i \in HourIdx |-> FinalizeAgg(folded[i])]
             peak == PeakScan([maxAvg |-> Zero, PeakHour |-> 0, PeakPowerAvg |-> Zero],
                              byHour, 0)
             total == TotalProduction(ds, 1, Zero)
         IN  [StartDate |-> ds[1].Date,
              EndDate |-> ds[Len(ds)].Date,
              DaysAnalyzed |-> Len(ds),
              ByHour |-> byHour,
              TotalProduction |-> total,
              DailyAverage |-> IF Len(ds) > 0 THEN RDivInt(total, Len(ds)) ELSE Zero,
              PeakHour |-> peak.PeakHour,
              PeakPowerAvg |-> peak.PeakPowerAvg]

-----------------------------------------------------------------------------
(* GetHourlyRows *)

\* DayRows leaving out the hours that hold no sample
RECURSIVE DayRowsWithData(_, _)
DayRowsWithData(day, hour) ==
    IF hour >= HoursPerDay THEN <<>>
    ELSE LET b == day.Hours[hour]
         IN  (IF b = Nil \/ b.Samples = 0 THEN <<>>
              ELSE <<[Date |-> day.Date, Hour |-> hour, Min |-> b.Min,
                      Max |-> b.Max, Avg |-> b.Mean, Samples |-> b.Samples]>>)
             \o DayRowsWithData(day, hour + 1)

\* the rows of one day, hours hour..23
RECURSIVE DayRows(_, _)
DayRows(day, hour) ==
    IF hour >= HoursPerDay THEN <<>>
    ELSE LET b == day.Hours[hour]
         IN  (IF b = Nil THEN <<>>
              ELSE <<[Date |-> day.Date, Hour |-> hour, Min |-> b.Min,
                      Max |-> b.Max, Avg |-> b.Mean, Samples |-> b.Samples]>>)
             \o DayRows(day, hour + 1)

\* GetHourlyRowsFrom with the rows of a later day put before those of an
\* earlier day
RECURSIVE GetHourlyRowsLastFirst(_, _)
GetHourlyRowsLastFirst(ds, k) ==
    IF k > Len(ds) THEN <<>>
    ELSE GetHourlyRowsLastFirst(ds, k + 1) \o DayRows(ds[k], 0)

\* the loop over the days ds[k..]
RECURSIVE GetHourlyRowsFrom(_, _)
GetHourlyRowsFrom(ds, k) ==
    IF k > Len(ds) THEN <<>>
    ELSE DayRows(ds[k], 0) \o GetHourlyRowsFrom(ds, k + 1)

GetHourlyRows(ds) == GetHourlyRowsFrom(ds, 1)

-----------------------------------------------------------------------------
(* Inputs of the model *)

\* the float64 a power reading of t tenths of a watt is decoded to: the
\* float64 nearest to t/10
Watts(t) == RDivInt(Rat(t), 10)

\* sample values (in tenths of a watt: -1 W, 0 W, 0.1 W and 1 W) and clock
\* hours delivered by the fetch layer; ParsePowerData passes on any integer
\* hour, so hours outside 0..23 occur
Powers == {-10, 0, 1, 10}
SampleHours == {-1, 0, 12, 24}

\* the leaner sample domain of the multi-day runs (-2 W, 0.1 W and 1 W) and
\* that of the call followed statement by statement
DayPowers == {-20, 1, 10}
DayHours == {0, 12}
StepPowers == {-10, 10}

\* the values and the mean arguments of the direct calls of CalculateStdDev
\* and CalculateMedian, and the lists of at most n such values
FnPowers == {1, 2, 5}
FnMeans == {0, 3}
FnLists(n) ==
    UNION { { [k \in 1 .. len |-> Rat(f[k])] : f \in [1 .. len -> FnPowers] } :
            len \in 0 .. n }

\* the first date of the requested range and the date i days later, as
\* AddDate(0, 0, 1) reaches it
FromDate == [Year |-> 2025, Month |-> 2, Day |-> 1]
DateOf(i) ==
    LET t == AddDays(ClockOn(FromDate, 0), i)
    IN  [Year |-> t.Year, Month |-> t.Month, Day |-> t.Day]

\* the []ParsedPowerData lists of one date with at most n samples
InputsOn(date, hours, powers, n) ==
    UNION { { [k \in 1 .. len |->
                 [Date |-> date, Hour |-> f[k][1], Power |-> Watts(f[k][2])]] :
              f \in [1 .. len -> hours \X powers] } : len \in 0 .. n }

\* the samples of the end-to-end scenario: a reading at 12:00 of 4000 W,
\* 4500 W or 4200 W, and a reading of 4500 W at 00:00 (in tenths of a watt)
E2ESamples == {<<12, 40000>>, <<12, 45000>>, <<12, 42000>>, <<0, 45000>>}

\* the []ParsedPowerData lists of one date with at most n samples out of the
\* set kinds of <<hour, power>> pairs
InputsOf(date, kinds, n) ==
    UNION { { [k \in 1 .. len |->
                 [Date |-> date, Hour |-> f[k][1], Power |-> Watts(f[k][2])]] :
              f \in [1 .. len -> kinds] } : len \in 0 .. n }

\* the two range fetches of the client
RangeFns == {"GetPlantPowerRange", "GetMINInverterHistoryRange"}

\* the day before the from argument of a range fetch (ends of February, in
\* a leap year and in a common year, and the end of a year), and the clock
\* hours of the from and to arguments
RangeBases ==
    { [Year |-> 2024, Month |-> 2, Day |-> 28, Hour |-> 0],
      [Year |-> 2025, Month |-> 2, Day |-> 27, Hour |-> 0],
      [Year |-> 2025, Month |-> 12, Day |-> 30, Hour |-> 0] }
RangeClocks == {0, 12}

\* the number of samples held by the buckets of the days ds
SamplesIn(ds) ==
    Cardinality(UNION { UNION { {<<k, i>>} \X (1 .. ds[k].Hours[i].Samples) :
                                i \in HourIdx } : k \in 1 .. Len(ds) })

-----------------------------------------------------------------------------
(* The client (pkg/growatt) *)

\* DefaultRateLimit, in seconds
DefaultRateLimit == 3

\* the rate limits a client is given by WithRateLimit or SetRateLimit
RateLimits == {0, 2, DefaultRateLimit}

\* the goroutines that make requests through one client: the caller of a
\* range fetch or of resolvePlantID (the main goroutine of growatt-export
\* or of a test), and two callers of other methods; the client holds no lock
MainCaller == 0
DirectCallers == {1, 2}
Callers == {MainCaller} \cup DirectCallers

\* a caller that is not in a request of the client
Idle == [pc |-> "idle", idx |-> 0, elapsed |-> [sat |-> FALSE, d |-> 0],
         wake |-> 0, stamp |-> 0]

\* time.Time.IsZero: the clock of the model starts at 1
IsZero(t) == t = 0

\* a time.Duration of d seconds, and the Duration at which a difference of
\* two times saturates
Seconds(d) == [sat |-> FALSE, d |-> d]
MaxDuration == [sat |-> TRUE, d |-> 0]

\* time.Since(t) on a clock that shows clock: the zero Time lies further
\* back than a Duration holds
Since(t, clock) == IF IsZero(t) THEN MaxDuration ELSE Seconds(clock - t)

\* elapsed < rl
DurationLess(elapsed, rl) == ~elapsed.sat /\ elapsed.d < rl

\* the callers other than c that are in the middle of the assignment
\* "c.lastCall = time.Now()": a time.Time is three words, written one by one
Stamping(c) == {o \in Callers \ {c} : conn[o].pc = "stamping"}

\* what c.lastCall.IsZero() can give caller c: the answer for the value
\* stored, and during an assignment by another caller the answer for the new
\* value or for a mix of the words of both, which is not the zero Time
IsZeroSeen(c) == {IsZero(lastCall)} \cup (IF Stamping(c) # {} THEN {FALSE} ELSE {})

\* what time.Since can give for a mix of the words of the zero Time and of a
\* time.Now(): the time since the start of the process, or the difference to
\* a wall clock reading made of a monotonic one, which is any Duration
TornElapsed(clock) == {MaxDuration} \cup {Seconds(x) : x \in -1 .. clock}

\* what time.Since(c.lastCall) can give caller c: the time since the value
\* stored, and during an assignment by another caller the time since the
\* new value or since a mix of both
ElapsedSeen(c) ==
    {Since(lastCall, now)}
        \cup {Since(conn[o].stamp, now) : o \in Stamping(c)}
        \cup (IF Stamping(c) # {} /\ IsZero(lastCall) THEN TornElapsed(now) ELSE {})

\* the throttle that never waits
SleepForNothing(rl, elapsed) == 0

\* the argument of time.Sleep: c.rateLimit - elapsed
SleepFor(rl, elapsed) == rl - elapsed.d

\* the HTTP methods of doRequest (through get) and of postForm
Methods == {"GET", "POST"}

\* the calls cs with the calls in the throttle of the callers os marked as
\* disturbed: another caller entered the client or the rate limit was set
Disturbed(cs, os) ==
    [k \in 1 .. Len(cs) |->
        IF \E o \in os : conn[o].idx = k /\ conn[o].pc \notin {"idle", "request"}
        THEN [cs[k] EXCEPT !.undisturbed = FALSE]
        ELSE cs[k]]

\* strings.Contains(s, substr)
Contains(s, substr) ==
    \E i \in 1 .. Len(s) - Len(substr) + 1 :
        SubSeq(s, i, i + Len(substr) - 1) = substr

\* strings.Contains(message, "frequently")
ContainsFrequently(message) == Contains(message, "frequently")

\* NewAPIError(code, message): an *APIError
NewAPIError(code, message) == [Code |-> code, Message |-> message]

\* the "Common API errors" of the package
ErrPermissionDenied == NewAPIError(10011, "permission denied")
ErrPlantNotFound == NewAPIError(10012, "plant not found")
ErrFrequentAccess == NewAPIError(10012, "frequently access (rate limited)")
ErrInvalidToken == NewAPIError(10011, "invalid token")

\* the errors checkResponse makes of the answers of the server: the codes
\* and messages of the API documentation, and the rate-limit error in
\* three wordings
ServerErrors ==
    {NewAPIError(10011, "error_permission_denied"),
     NewAPIError(10012, "error_plant_not_found"),
     NewAPIError(10012, "error_frequently_access"),
     NewAPIError(10012, "too frequently"),
     ErrFrequentAccess}

\* fmt.Errorf("<msg>: %w", err), and an error that wraps nothing
Wrap(msg, err) == [err |-> msg, wraps |-> err]
Plain(msg) == [err |-> msg]

\* ctx.Err() of a cancelled context
CtxErr == Plain("context canceled")

\* the errors of a request that are not answers of the server
ErrCreatingRequest == Wrap("creating request", Plain("invalid URL"))
RequestErrors ==
    {ErrCreatingRequest,
     Wrap("executing request", CtxErr),
     Wrap("reading response", Plain("unexpected EOF")),
     Wrap("parsing response", Plain("invalid character")),
     Wrap("parsing response data", Plain("cannot unmarshal"))}

\* what an API call returns as its error: nil, an error of the server or
\* an error of the request
Answers == {Nil} \cup ServerErrors \cup RequestErrors

\* the requests sent for a call that returns err: none when the request
\* could not be created, one otherwise
Attempts(err) == IF err = ErrCreatingRequest THEN 0 ELSE 1

\* errors.As(err, &apiErr): the first *APIError in the chain of err, or Nil
RECURSIVE AsAPIError(_)
AsAPIError(err) ==
    IF "Code" \in DOMAIN err THEN err
    ELSE IF "wraps" \in DOMAIN err THEN AsAPIError(err.wraps)
    ELSE Nil

\* IsRateLimited(err)
IsRateLimited(err) ==
    LET apiErr == AsAPIError(err)
    IN  /\ apiErr # Nil
        /\ apiErr.Code = 10012
        /\ (apiErr.Message = "error_frequently_access"
                \/ ContainsFrequently(apiErr.Message))

\* the position of the first ch in s, 0 when there is none
Index(s, ch) ==
    IF Contains(s, ch)
    THEN CHOOSE i \in 1 .. Len(s) :
            /\ SubSeq(s, i, i) = ch
            /\ \A j \in 1 .. i - 1 : SubSeq(s, j, j) # ch
    ELSE 0

\* normalizeTime(t): the part after the first space ("YYYY-MM-DD HH:MM"),
\* without its seconds ("HH:MM:SS")
normalizeTime(t) ==
    LET rest == SubSeq(t, Index(t, " ") + 1, Len(t))
        part == IF ~Contains(t, " ") THEN t
                ELSE IF Contains(rest, " ")
                     THEN SubSeq(rest, 1, Index(rest, " ") - 1)
                     ELSE rest
    IN  IF Len(part) > 5 /\ SubSeq(part, 3, 3) = ":" /\ SubSeq(part, 6, 6) = ":"
        THEN SubSeq(part, 1, 5)
        ELSE part

\* a < b on strings: the bytes of the time strings are those of Bytes, in
\* ascending order
StringLess(a, b) ==
    LET Bytes == " -0123456789:"
        Byte(ch) == CHOOSE i \in 1 .. Len(Bytes) : SubSeq(Bytes, i, i) = ch
    IN  \E k \in 0 .. Len(a) :
            /\ k <= Len(b)
            /\ SubSeq(a, 1, k) = SubSeq(b, 1, k)
            /\ IF k = Len(a) THEN k < Len(b)
               ELSE /\ k < Len(b)
                    /\ Byte(SubSeq(a, k + 1, k + 1)) < Byte(SubSeq(b, k + 1, k + 1))

\* a PowerDataPoint
Point(t, power) == [Time |-> t, Power |-> power]

\* sort.Slice(powers, by Time) on a slice of fewer than 12 elements, which
\* is sorted by insertion: x moves left past the elements it is less than
RECURSIVE InsertByTime(_, _)
InsertByTime(sorted, x) ==
    IF Len(sorted) = 0 \/ ~StringLess(x.Time, sorted[Len(sorted)].Time)
    THEN Append(sorted, x)
    ELSE Append(InsertByTime(SubSeq(sorted, 1, Len(sorted) - 1), x),
                sorted[Len(sorted)])

RECURSIVE SortByTime(_, _, _)
SortByTime(powers, k, sorted) ==
    IF k > Len(powers) THEN sorted
    ELSE SortByTime(powers, k + 1, InsertByTime(sorted, powers[k]))

\* the data points of a day as the server lists them, times as it writes them
NoPoints == <<>>
OnePoint == <<Point("12:00", Rat(4500))>>
UnsortedPoints == <<Point("2025-02-01 12:05:00", Rat(4200)), Point("06:00", Zero)>>
SameMinutePoints == <<Point("12:00:30", Rat(4000)), Point("12:00", Rat(4500))>>
UntimedPoints == <<Point("", Rat(4000)), Point("12:00", Rat(4500))>>

\* the answers of the server to a day-fetch that succeeds: "datas" of a MIN
\* history, and "powers" of a plant as a map, as an array of objects or as
\* an array of [time, power] arrays
DayResponses(fn) ==
    IF fn = "GetMINInverterHistoryRange"
    THEN {[format |-> "datas", items |-> NoPoints],
          [format |-> "datas", items |-> OnePoint],
          [format |-> "datas", items |-> UnsortedPoints],
          [format |-> "datas", items |-> SameMinutePoints],
          [format |-> "datas", items |-> UntimedPoints]}
    ELSE {[format |-> "map", items |-> NoPoints],
          [format |-> "map", items |-> SameMinutePoints],
          [format |-> "array", items |-> UnsortedPoints],
          [format |-> "arrays", items |-> UntimedPoints]}

\* the keys of the map FlexPowers.UnmarshalJSON makes of items
TimeKeys(items) == {normalizeTime(items[k].Time) : k \in 1 .. Len(items)}

\* FlexPowers.UnmarshalJSON, as the maps it can give: the entries of a JSON
\* map are gone through in the order of a Go map, so that any of the entries
\* with the same normalized time can be the last one written; in an array
\* the last one of them is; in an array of arrays the entries without a
\* time are skipped
FlexPowers(format, items) ==
    LET timed == IF format = "arrays"
                 THEN SelectSeq(items, LAMBDA p : p.Time # "")
                 ELSE items
        Last(key) == CHOOSE k \in 1 .. Len(timed) :
                        /\ normalizeTime(timed[k].Time) = key
                        /\ \A j \in k + 1 .. Len(timed) :
                                normalizeTime(timed[j].Time) # key
    IN  IF format = "map"
        THEN { m \in [TimeKeys(timed) -> {timed[k].Power : k \in 1 .. Len(timed)}] :
                 \A key \in TimeKeys(timed) :
                    \E k \in 1 .. Len(timed) :
                        /\ normalizeTime(timed[k].Time) = key
                        /\ timed[k].Power = m[key] }
        ELSE { [key \in TimeKeys(timed) |-> timed[Last(key)].Power] }

\* the entries of the map m with the keys keys as a slice sorted by Time:
\* the keys of a map differ, so the order in which they are appended does
\* not show after the sort
RECURSIVE SortedPoints(_, _)
SortedPoints(m, keys) ==
    IF keys = {} THEN <<>>
    ELSE LET least == CHOOSE key \in keys :
                        \A o \in keys \ {key} : StringLess(key, o)
         IN  <<Point(least, m[least])>> \o SortedPoints(m, keys \ {least})

\* the Powers GetPlantPower or GetMINInverterHistory can return for the
\* answer resp of the server
PowersOfDay(fn, resp) ==
    IF fn = "GetMINInverterHistoryRange"
    THEN { SortByTime([k \in 1 .. Len(resp.items) |->
                          Point(normalizeTime(resp.items[k].Time),
                                resp.items[k].Power)], 1, <<>>) }
    ELSE { SortedPoints(m, DOMAIN m) : m \in FlexPowers(resp.format, resp.items) }

\* the error a range fetch returns when the day-fetch of t fails with err
FetchErr(fn, t, err) ==
    [err |-> IF fn = "GetPlantPowerRange" THEN "fetching power for"
             ELSE "fetching MIN history for",
     date |-> FormatDate(t), wraps |-> err]

\* strings.Split(s, sep) for a separator of one byte
RECURSIVE Split(_, _)
Split(s, sep) ==
    IF Index(s, sep) = 0 THEN <<s>>
    ELSE <<SubSeq(s, 1, Index(s, sep) - 1)>>
            \o Split(SubSeq(s, Index(s, sep) + 1, Len(s)), sep)

\* strconv.Atoi(s): the number and a nil error for an optional sign and
\* decimal digits, an error otherwise (the numbers of the model are far
\* from the range of int)
Atoi(s) ==
    LET signed == Len(s) > 0 /\ SubSeq(s, 1, 1) \in {"+", "-"}
        digits == IF signed THEN SubSeq(s, 2, Len(s)) ELSE s
        IsDigit(ch) == \E i \in 1 .. 10 : DigitChars[i] = ch
        Value[k \in 0 .. Len(digits)] ==
            IF k = 0 THEN 0
            ELSE (10 * Value[k - 1]) + DigitValue(SubSeq(digits, k, k))
    IN  IF Len(digits) = 0
            \/ \E k \in 1 .. Len(digits) : ~IsDigit(SubSeq(digits, k, k))
        THEN [n |-> 0, err |-> Plain("invalid syntax")]
        ELSE [n |-> IF signed /\ SubSeq(s, 1, 1) = "-"
                    THEN -Value[Len(digits)] ELSE Value[Len(digits)],
              err |-> Nil]

\* ParsePowerData(data): the readings of the record whose time has an hour
\* and a minute that are numbers, with the date of the record; the others
\* are passed over
ParsePowerData(pd) ==
    LET TimeOf(p) ==
            IF Contains(p.Time, " ") /\ Len(Split(p.Time, " ")) = 2
            THEN Split(p.Time, " ")[2] ELSE p.Time
        Parts(p) == Split(TimeOf(p), ":")
        Parsed(p) == /\ Len(Parts(p)) >= 2
                     /\ Atoi(Parts(p)[1]).err = Nil
                     /\ Atoi(Parts(p)[2]).err = Nil
        kept == SelectSeq(pd.Powers, Parsed)
    IN  [k \in 1 .. Len(kept) |->
            [Date |-> ParseDate(pd.Date),
             Hour |-> Atoi(Parts(kept[k])[1]).n,
             Power |-> kept[k].Power]]

-----------------------------------------------------------------------------
(* growatt-export: plant ID resolution and the files of a run *)

\* the values of the --plant-id flag and of GROWATT_PLANT_ID ("" when not
\* given or not set)
PlantFlags == {"", "flag-plant-id"}
PlantEnvs == {"", "env-plant-id"}

\* the plants of an account as ListPlants returns them
PlantIDs == {"auto-detected-123", "plant-1"}
PlantLists ==
    UNION { [1 .. n -> [PlantID : PlantIDs, PlantName : {"My Solar"}]] :
            n \in 0 .. MaxPlants }

\* the errors of resolvePlantIDInternal
ErrListPlants(err) == Wrap("failed to list plants", err)
ErrNoPlants == [err |-> "no plants found for this account"]
ErrMultiplePlants ==
    [err |-> "multiple plants found; specify --plant-id or set GROWATT_PLANT_ID environment variable"]

\* what ListPlants returns: the plants of the account, or the error of its
\* request
ListAnswers ==
    {[plants |-> p, err |-> Nil] : p \in PlantLists}
        \cup {[plants |-> <<>>, err |-> e] : e \in Answers \ {Nil}}

\* what resolvePlantIDInternal returns once ListPlants has returned plants
\* and err
ResolveFromList(plants, err) ==
    IF err # Nil THEN [id |-> "", err |-> ErrListPlants(err)]
    ELSE IF Len(plants) = 0 THEN [id |-> "", err |-> ErrNoPlants]
    ELSE IF Len(plants) = 1 THEN [id |-> plants[1].PlantID, err |-> Nil]
    ELSE [id |-> "", err |-> ErrMultiplePlants]

\* the file names of a run: the kind of file and the dates in its name; the
\* empty string is NoFile
NoFile == [kind |-> "", dates |-> <<>>]
FileName(kind, dates) == [kind |-> kind, dates |-> dates]

\* the names run gives the raw CSV, the hourly CSV and the statistics file
ExportFiles(f, t) ==
    IF f = t
    THEN [rawCSVFile |-> FileName("power", <<FormatDate(f)>>),
          hourlyCSVFile |-> FileName("hourly", <<FormatDate(f)>>),
          statsFile |-> NoFile]
    ELSE [rawCSVFile |-> FileName("power", <<FormatDate(f), FormatDate(t)>>),
          hourlyCSVFile |-> FileName("hourly", <<FormatDate(f), FormatDate(t)>>),
          statsFile |-> FileName("stats", <<FormatDate(f), FormatDate(t)>>)]

\* the arguments of a run: "today" (from and to are time.Now()), --date, or
\* --from and --to (midnights of time.Parse), the last with k days between
ExportArgs ==
    {[mode |-> "today", from |-> ClockOn(FromDate, 12),
                        to |-> ClockOn(FromDate, 12)],
     [mode |-> "date", from |-> ClockOn(FromDate, 0),
                       to |-> ClockOn(FromDate, 0)]}
    \cup {[mode |-> "range", from |-> ClockOn(FromDate, 0),
                             to |-> ClockOn(DateOf(k), 0)] :
            k \in 0 .. MaxDays - 1}
    \cup {[mode |-> "range", from |-> ClockOn(DateOf(1), 0),
                             to |-> ClockOn(FromDate, 0)]}

\* the errors of run
ErrEndBeforeStart == [err |-> "end date cannot be before start date"]
ErrFetching(err) == Wrap("fetching power data", err)
ErrNoData == [err |-> "no data returned"]

-----------------------------------------------------------------------------
(* State machine *)

Init ==
    /\ h = Nil
    /\ finalized = FALSE
    /\ data = <<>>
    /\ stats = Nil
    /\ pdIdx = 0
    /\ days = <<>>
    /\ multiDay = Nil
    /\ rows = <<>>
    /\ op = "start"
    /\ powerData = <<>>
    /\ aggCalls = 0
    /\ fnValues = <<>>
    /\ fnMean = Zero
    /\ fnAfter = <<>>
    /\ fnResult = Nil
    /\ rangeFn = "none"
    /\ from = Nil
    /\ to = Nil
    /\ current = Nil
    /\ results = <<>>
    /\ requests = <<>>
    /\ rangeErr = Nil
    /\ ctxDone = FALSE
    /\ rpc = "idle"
    /\ rateLimit = DefaultRateLimit
    /\ lastCall = 0
    /\ now = 1
    /\ calls = <<>>
    /\ conn = [c \in Callers |-> Idle]
    /\ pid = [pc |-> "idle"]
    /\ export = [pc |-> "idle"]
    /\ hourly = [pc |-> "idle", data |-> <<>>, i |-> 0, Date |-> <<>>,
                 Hours |-> [hr \in HourIdx |-> Nil], events |-> <<>>,
                 result |-> Nil]
    /\ heap = <<>>
    /\ frame = [pc |-> "start", days |-> <<>>, base |-> 0, result |-> 0,
                i |-> 0, day |-> 0, maxAvg |-> Zero, returned |-> <<>>]
    /\ fused \in BOOLEAN

\* a caller creates a bucket (NewHourlyStats), as the tests do
CallNewHourlyStats ==
    \E hour \in HourIdx :
        /\ h' = NewHourlyStats(hour)
        /\ finalized' = FALSE
        /\ op' = "NewHourlyStats"
        /\ UNCHANGED <<data, stats, pdIdx, powerData, days, multiDay, aggCalls, rows,
                       fnVars, rangeVars,
                   clientVars, cliVars, stepVars, buildVars>>

\* h.AddValue(power): the method has no guard, so it is callable at any time
CallAddValue ==
    /\ h # Nil
    /\ h.Samples < MaxAdds
    /\ \E p \in Powers :
        /\ h' = AddValue(h, Watts(p))
        /\ op' = "AddValue"
        /\ UNCHANGED <<finalized, data, stats, pdIdx, powerData, days, multiDay,
                       aggCalls, rows, fnVars, rangeVars,
                   clientVars, cliVars, stepVars, buildVars>>

\* h.Finalize()
CallFinalize ==
    /\ h # Nil
    /\ h' = Finalize(h)
    /\ finalized' = TRUE
    /\ op' = "Finalize"
    /\ UNCHANGED <<data, stats, pdIdx, powerData, days, multiDay, aggCalls, rows,
                       fnVars, rangeVars,
                   clientVars, cliVars, stepVars, buildVars>>

\* one iteration of a loop as run's "Parse and aggregate to hourly", on the
\* sample list d: the day is aggregated and a non-nil result appended to
\* the list of days
AggregateDay(d) ==
    /\ data' = d
    /\ stats' = AggregateToHourly(d)
    /\ days' = IF stats' # Nil THEN Append(days, stats') ELSE days
    /\ pdIdx' = pdIdx + 1
    /\ powerData' = Append(powerData, d)
    /\ op' = "AggregateToHourly"
    /\ UNCHANGED <<h, finalized, multiDay, aggCalls, rows, fnVars, rangeVars,
                   clientVars, cliVars, stepVars, buildVars>>

\* the loop over a range of MaxDays dates holding MaxRunSamples samples in all
RunDay ==
    /\ op \in {"start", "AggregateToHourly"}
    /\ pdIdx < MaxDays
    /\ \E d \in InputsOn(DateOf(pdIdx), DayHours, DayPowers,
                         MaxRunSamples - SamplesIn(days)) :
        AggregateDay(d)

\* the loop over a range whose days hold the readings of the end-to-end
\* scenario
RunDayE2E ==
    /\ op \in {"start", "AggregateToHourly"}
    /\ pdIdx < MaxDays
    /\ \E d \in InputsOf(DateOf(pdIdx), E2ESamples,
                         MaxRunSamples - SamplesIn(days)) :
        AggregateDay(d)

\* the loop over a single date, on any sample list
RunSingleDay ==
    /\ op = "start"
    /\ \E i \in {0, 2} :
        \E d \in InputsOn(DateOf(i), SampleHours, Powers, MaxSamples) :
            AggregateDay(d)

\* GetHourlyRows(days), called by a user of the package on the days
\* aggregated so far, as the tests call it
CallGetHourlyRows ==
    /\ op \in {"start", "AggregateToHourly"}
    /\ rows' = GetHourlyRows(days)
    /\ op' = "GetHourlyRows"
    /\ UNCHANGED <<h, finalized, data, stats, pdIdx, powerData, days, multiDay,
                 aggCalls, fnVars, rangeVars,
                   clientVars, cliVars, stepVars, buildVars>>

\* AggregateDays(days), called by a user of the package on the days
\* aggregated so far, as the tests call it: on any list, an empty one
\* included, and more than once.  The function reads the days it is given
\* and writes only to the result it allocates, so the caller's list is as
\* before
CallAggregateDays ==
    /\ op \in {"GetHourlyRows", "AggregateDays"}
    /\ aggCalls < MaxCalls
    /\ multiDay' = AggregateDays(days)
    /\ days' = days
    /\ aggCalls' = aggCalls + 1
    /\ op' = "AggregateDays"
    /\ UNCHANGED <<h, finalized, data, stats, pdIdx, powerData, rows,
                   fnVars, rangeVars,
                   clientVars, cliVars, stepVars, buildVars>>

\* CalculateStdDev(values, mean) called directly, as the tests do, with the
\* mean of the list or any other number; the function only reads the slice
CallCalculateStdDev ==
    /\ op = "start"
    /\ \E vs \in FnLists(MaxValues) :
        \E m \in {Rat(x) : x \in FnMeans}
                   \cup {RDivInt(SumValues(vs, 1, Zero), IF Len(vs) = 0 THEN 1 ELSE Len(vs))} :
            /\ fnValues' = vs
            /\ fnMean' = m
            /\ fnResult' = CalculateStdDev(vs, m)
            /\ fnAfter' = vs
            /\ op' = "CalculateStdDev"
            /\ UNCHANGED <<h, finalized, data, stats, pdIdx, powerData, days,
                           multiDay, aggCalls, rows, rangeVars,
                           clientVars, cliVars, stepVars, buildVars>>

\* CalculateMedian(values) called directly: the sort is applied to a copy, so
\* the caller's slice is as it was passed
CallCalculateMedian ==
    /\ op = "start"
    /\ \E vs \in FnLists(MaxValues) :
            /\ fnValues' = vs
            /\ fnMean' = Zero
            /\ fnResult' = CalculateMedian(vs)
            /\ fnAfter' = vs
            /\ op' = "CalculateMedian"
            /\ UNCHANGED <<h, finalized, data, stats, pdIdx, powerData, days,
                           multiDay, aggCalls, rows, rangeVars,
                           clientVars, cliVars, stepVars, buildVars>>

\* GetPlantPowerRange / GetMINInverterHistoryRange is called: results is
\* empty and current is from
CallRange ==
    /\ rpc = "idle"
    /\ \E fn \in RangeFns, base \in RangeBases, n \in 0 .. MaxDays,
          c1 \in RangeClocks, c2 \in RangeClocks :
        /\ rangeFn' = fn
        /\ from' = [AddDate(base) EXCEPT !.Hour = c1]
        /\ to' = [AddDays(base, n) EXCEPT !.Hour = c2]
        /\ current' = from'
        /\ results' = <<>>
        /\ requests' = <<>>
        /\ rangeErr' = Nil
        /\ rpc' = "check"
        /\ UNCHANGED <<ctxDone, statsVars, fnVars,
                   clientVars, cliVars, stepVars, buildVars>>

\* the caller cancels the context, at any moment before the call returns
CancelCtx ==
    /\ rpc # "returned"
    /\ ~ctxDone
    /\ ctxDone' = TRUE
    /\ UNCHANGED <<rangeFn, from, to, current, results, requests, rangeErr, rpc,
                   statsVars, fnVars,
                   clientVars, cliVars, stepVars, buildVars>>

\* the loop condition fails: return results, nil
RangeReturn ==
    /\ rpc = "check"
    /\ After(current, to)
    /\ rpc' = "returned"
    /\ rangeErr' = Nil
    /\ UNCHANGED <<rangeFn, from, to, current, results, requests, ctxDone,
                   statsVars, fnVars,
                   clientVars, cliVars, stepVars, buildVars>>

\* the select finds the context done and the error returned is nil
RangeCancelledSilently ==
    /\ rpc = "check"
    /\ ~After(current, to)
    /\ ctxDone
    /\ rpc' = "returned"
    /\ rangeErr' = Nil
    /\ UNCHANGED <<rangeFn, from, to, current, results, requests, ctxDone,
                   statsVars, fnVars,
                   clientVars, cliVars, stepVars, buildVars>>

\* the select finds the context done: return results, ctx.Err()
RangeCancelled ==
    /\ rpc = "check"
    /\ ~After(current, to)
    /\ ctxDone
    /\ rpc' = "returned"
    /\ rangeErr' = CtxErr
    /\ UNCHANGED <<rangeFn, from, to, current, results, requests, ctxDone,
                   statsVars, fnVars,
                   clientVars, cliVars, stepVars, buildVars>>

\* caller c enters the throttle with a request of method method: the
\* condition "c.rateLimit > 0 && !c.lastCall.IsZero()" of enforceRateLimit
\* is evaluated, and the request is entered in the list of calls
EnterThrottle(c, method) ==
    \E zero \in IsZeroSeen(c) :
        /\ conn' = [conn EXCEPT ![c] =
                        [Idle EXCEPT !.pc = IF rateLimit > 0 /\ ~zero
                                            THEN "since" ELSE "stamp",
                                     !.idx = Len(calls) + 1]]
        /\ calls' = Append(Disturbed(calls, Callers \ {c}),
                           [caller |-> c,
                            method |-> method,
                            limit |-> rateLimit,
                            undisturbed |->
                                \A o \in Callers \ {c} :
                                    conn[o].pc \in {"idle", "request"},
                            slept |-> 0,
                            released |-> 0,
                            attempts |-> 0,
                            err |-> Nil,
                            done |-> FALSE])

\* the select takes its default branch and the day-fetch of current is
\* started: GetPlantPower / GetMINInverterHistory is called with the date
\* and its request (get of GetPlantPower, postForm of GetMINInverterHistory)
\* enters the throttle
RangeProceed ==
    /\ rpc = "check"
    /\ ~After(current, to)
    /\ ~ctxDone
    /\ requests' = Append(requests, FormatDate(current))
    /\ rpc' = "fetch"
    /\ EnterThrottle(MainCaller,
                     IF rangeFn = "GetPlantPowerRange" THEN "GET" ELSE "POST")
    /\ UNCHANGED <<rangeFn, from, to, current, results, rangeErr, ctxDone,
                   rateLimit, lastCall, now, statsVars, fnVars, cliVars,
                   stepVars, buildVars>>

\* the day-fetch of current fails and the date is reported as a day without
\* samples next to the error
DayFetchFailsEmptyDay ==
    /\ rpc = "fetch"
    /\ conn[MainCaller].pc = "request"
    /\ \E err \in Answers \ {Nil} :
        /\ results' = Append(results, [Date |-> FormatDate(current), Powers |-> <<>>])
        /\ rangeErr' = FetchErr(rangeFn, current, err)
        /\ calls' = [calls EXCEPT ![conn[MainCaller].idx] =
                        [@ EXCEPT !.attempts = Attempts(err), !.err = err,
                                  !.done = TRUE]]
    /\ rpc' = "returned"
    /\ conn' = [conn EXCEPT ![MainCaller] = Idle]
    /\ UNCHANGED <<rangeFn, from, to, current, requests, ctxDone, rateLimit,
                   lastCall, now, statsVars, fnVars, cliVars, stepVars,
                   buildVars>>

\* the request of the day-fetch of current is answered with data: the
\* points are sorted by time, the record is appended and current moves on
\* by one day
DayFetchOk ==
    /\ rpc = "fetch"
    /\ conn[MainCaller].pc = "request"
    /\ \E resp \in DayResponses(rangeFn) :
        \E powers \in PowersOfDay(rangeFn, resp) :
            results' = Append(results, [Date |-> FormatDate(current),
                                        Powers |-> powers])
    /\ current' = AddDate(current)
    /\ rpc' = "check"
    /\ calls' = [calls EXCEPT ![conn[MainCaller].idx] =
                    [@ EXCEPT !.attempts = 1, !.done = TRUE]]
    /\ conn' = [conn EXCEPT ![MainCaller] = Idle]
    /\ UNCHANGED <<rangeFn, from, to, requests, rangeErr, ctxDone, rateLimit,
                   lastCall, now, statsVars, fnVars, cliVars, stepVars,
                   buildVars>>

\* the request of the day-fetch of current fails, by an error of the server
\* or of the request (a context cancelled while it is in flight among them):
\* return results and the wrapped error
DayFetchFails ==
    /\ rpc = "fetch"
    /\ conn[MainCaller].pc = "request"
    /\ \E err \in Answers \ {Nil} :
        /\ rangeErr' = FetchErr(rangeFn, current, err)
        /\ calls' = [calls EXCEPT ![conn[MainCaller].idx] =
                        [@ EXCEPT !.attempts = Attempts(err), !.err = err,
                                  !.done = TRUE]]
    /\ rpc' = "returned"
    /\ conn' = [conn EXCEPT ![MainCaller] = Idle]
    /\ UNCHANGED <<rangeFn, from, to, current, results, requests, ctxDone,
                   rateLimit, lastCall, now, statsVars, fnVars, cliVars,
                   stepVars, buildVars>>

\* c.SetRateLimit(d), by any goroutine at any moment
CallSetRateLimit ==
    /\ \/ Len(calls) < MaxRequests
       \/ \E c \in Callers : conn[c].pc # "idle"
    /\ \E d \in RateLimits \ {rateLimit} :
        /\ rateLimit' = d
        /\ calls' = Disturbed(calls, Callers)
        /\ UNCHANGED <<lastCall, now, conn, statsVars, fnVars, rangeVars,
                       cliVars, stepVars, buildVars>>

\* a second passes: while a request can still be made, and while a caller
\* sleeps
Tick ==
    /\ \/ now < MaxTime
       \/ \E c \in Callers : conn[c].pc = "sleeping" /\ now < conn[c].wake
    /\ now' = now + 1
    /\ UNCHANGED <<rateLimit, lastCall, calls, conn, statsVars, fnVars,
                   rangeVars, cliVars, stepVars, buildVars>>

\* a caller makes an API call: doRequest or postForm is called and its
\* request enters the throttle; of two callers that have made no call yet
\* the one with the lower number is taken to make the first one
CallAPI ==
    /\ Len(calls) < MaxRequests
    /\ \E c \in DirectCallers, method \in Methods :
        /\ conn[c].pc = "idle"
        /\ \A o \in DirectCallers :
                o < c => \E k \in 1 .. Len(calls) : calls[k].caller = o
        /\ EnterThrottle(c, method)
    /\ UNCHANGED <<rateLimit, lastCall, now, statsVars, fnVars, rangeVars,
                   cliVars, stepVars, buildVars>>

\* "elapsed := time.Since(c.lastCall)"
ThrottleSince ==
    \E c \in Callers :
        /\ conn[c].pc = "since"
        /\ \E elapsed \in ElapsedSeen(c) :
            conn' = [conn EXCEPT ![c].pc = "compare", ![c].elapsed = elapsed]
        /\ UNCHANGED <<rateLimit, lastCall, now, calls, statsVars, fnVars,
                       rangeVars, cliVars, stepVars, buildVars>>

\* "if elapsed < c.rateLimit"
ThrottleCompare ==
    \E c \in Callers :
        /\ conn[c].pc = "compare"
        /\ conn' = [conn EXCEPT ![c].pc =
                        IF DurationLess(conn[c].elapsed, rateLimit)
                        THEN "sleep" ELSE "stamp"]
        /\ UNCHANGED <<rateLimit, lastCall, now, calls, statsVars, fnVars,
                       rangeVars, cliVars, stepVars, buildVars>>

\* "time.Sleep(c.rateLimit - elapsed)" is called: a duration that is not
\* positive makes it return at once
ThrottleSleep ==
    \E c \in Callers :
        /\ conn[c].pc = "sleep"
        /\ LET d == SleepFor(rateLimit, conn[c].elapsed)
           IN  /\ conn' = [conn EXCEPT ![c].pc = IF d > 0 THEN "sleeping" ELSE "stamp",
                                       ![c].wake = now + d]
               /\ calls' = [calls EXCEPT ![conn[c].idx].slept = IF d > 0 THEN d ELSE 0]
        /\ UNCHANGED <<rateLimit, lastCall, now, statsVars, fnVars,
                       rangeVars, cliVars, stepVars, buildVars>>

\* time.Sleep returns, when the duration has passed or later
ThrottleWake ==
    \E c \in Callers :
        /\ conn[c].pc = "sleeping"
        /\ now >= conn[c].wake
        /\ conn' = [conn EXCEPT ![c].pc = "stamp"]
        /\ UNCHANGED <<rateLimit, lastCall, now, calls, statsVars, fnVars,
                       rangeVars, cliVars, stepVars, buildVars>>

\* "c.lastCall = time.Now()": the clock is read and the assignment begins
ThrottleStamp ==
    \E c \in Callers :
        /\ conn[c].pc = "stamp"
        /\ conn' = [conn EXCEPT ![c].pc = "stamping", ![c].stamp = now]
        /\ UNCHANGED <<rateLimit, lastCall, now, calls, statsVars, fnVars,
                       rangeVars, cliVars, stepVars, buildVars>>

\* the assignment to c.lastCall is complete and enforceRateLimit returns:
\* the request is released
ThrottleRelease ==
    \E c \in Callers :
        /\ conn[c].pc = "stamping"
        /\ lastCall' = conn[c].stamp
        /\ conn' = [conn EXCEPT ![c].pc = "request"]
        /\ calls' = [calls EXCEPT ![conn[c].idx].released = conn[c].stamp]
        /\ UNCHANGED <<rateLimit, now, statsVars, fnVars, rangeVars, cliVars,
                       stepVars, buildVars>>

\* the request of a caller is made and its outcome goes back to the caller:
\* the request is sent once, and not sent again whatever the answer
ApiReturn ==
    \E c \in DirectCallers :
        /\ conn[c].pc = "request"
        /\ \E err \in Answers :
            calls' = [calls EXCEPT ![conn[c].idx] =
                        [@ EXCEPT !.attempts = Attempts(err), !.err = err,
                                  !.done = TRUE]]
        /\ conn' = [conn EXCEPT ![c] = Idle]
        /\ UNCHANGED <<rateLimit, lastCall, now, statsVars, fnVars, rangeVars,
                       cliVars, stepVars, buildVars>>

\* resolvePlantID / resolvePlantIDQuiet is called, as by the tests: on a
\* client made for the call by NewClient with the default rate limit or
\* with WithRateLimit(d), or once more on the client of the call before
CallResolvePlantID ==
    /\ pid.pc \in {"idle", "returned"}
    /\ export.pc = "idle"
    /\ Len(calls) < MaxRequests
    /\ \E flagValue \in PlantFlags, envValue \in PlantEnvs, showTips \in BOOLEAN :
        pid' = [pc |-> "flag", flagValue |-> flagValue, env |-> envValue,
                showTips |-> showTips, envRead |-> FALSE, apiCalls |-> 0,
                plants |-> <<>>, listErr |-> Nil, id |-> "", err |-> Nil]
    /\ IF pid.pc = "idle" THEN rateLimit' \in RateLimits
       ELSE rateLimit' = rateLimit
    /\ UNCHANGED <<lastCall, now, calls, conn, export, statsVars, fnVars,
                   rangeVars, stepVars, buildVars>>

\* the flag is never looked at
ResolveFlagSkipped ==
    /\ pid.pc = "flag"
    /\ pid' = [pid EXCEPT !.pc = "env"]
    /\ UNCHANGED <<export, statsVars, fnVars, rangeVars, clientVars, stepVars, buildVars>>

\* if flagValue != "" { return flagValue, nil }
ResolveFlag ==
    /\ pid.pc = "flag"
    /\ pid' = IF pid.flagValue # ""
               THEN [pid EXCEPT !.pc = "returned", !.id = pid.flagValue]
               ELSE [pid EXCEPT !.pc = "env"]
    /\ UNCHANGED <<export, statsVars, fnVars, rangeVars, clientVars, stepVars, buildVars>>

\* if envValue := os.Getenv(EnvPlantID); envValue != "" { return envValue, nil }
ResolveEnv ==
    /\ pid.pc = "env"
    /\ pid' = IF pid.env # ""
               THEN [pid EXCEPT !.pc = "returned", !.envRead = TRUE, !.id = pid.env]
               ELSE [pid EXCEPT !.pc = "list", !.envRead = TRUE]
    /\ UNCHANGED <<export, statsVars, fnVars, rangeVars, clientVars, stepVars, buildVars>>

\* "plants, err := client.ListPlants(ctx)" is called: the GET of the plant
\* list enters the throttle
ResolveListPlants ==
    /\ pid.pc = "list"
    /\ pid' = [pid EXCEPT !.pc = "listing", !.apiCalls = @ + 1]
    /\ EnterThrottle(MainCaller, "GET")
    /\ UNCHANGED <<rateLimit, lastCall, now, export, statsVars, fnVars,
                   rangeVars, stepVars, buildVars>>

\* the request of the plant list is made: client.ListPlants(ctx) fails or
\* returns the plants of the account, and the result follows from their
\* number
ResolveList ==
    /\ pid.pc = "listing"
    /\ conn[MainCaller].pc = "request"
    /\ \E a \in ListAnswers :
        LET r == ResolveFromList(a.plants, a.err)
        IN  /\ pid' = [pid EXCEPT !.pc = "returned",
                                  !.plants = a.plants, !.listErr = a.err,
                                  !.id = r.id, !.err = r.err]
            /\ calls' = [calls EXCEPT ![conn[MainCaller].idx] =
                            [@ EXCEPT !.attempts = Attempts(a.err),
                                      !.err = a.err, !.done = TRUE]]
    /\ conn' = [conn EXCEPT ![MainCaller] = Idle]
    /\ UNCHANGED <<rateLimit, lastCall, now, export, statsVars, fnVars,
                   rangeVars, stepVars, buildVars>>

\* run is called with the serial number of the device given (no plant ID
\* is resolved then): the date range is determined and checked, the client
\* is made with the default rate limit and GetMINInverterHistoryRange is
\* called on it with context.Background()
ExportStart ==
    /\ export.pc = "idle"
    /\ pid.pc = "idle"
    /\ rpc = "idle"
    /\ op = "start"
    /\ \E a \in ExportArgs :
        IF After(a.from, a.to)
        THEN /\ export' = [pc |-> "returned", mode |-> a.mode, from |-> a.from,
                           to |-> a.to, n |-> 0, files |-> ExportFiles(a.from, a.to),
                           written |-> {}, err |-> ErrEndBeforeStart]
             /\ UNCHANGED rangeVars
        ELSE /\ export' = [pc |-> "fetch", mode |-> a.mode, from |-> a.from,
                           to |-> a.to, n |-> 0, files |-> ExportFiles(a.from, a.to),
                           written |-> {}, err |-> Nil]
             /\ rangeFn' = "GetMINInverterHistoryRange"
             /\ from' = a.from
             /\ to' = a.to
             /\ current' = a.from
             /\ results' = <<>>
             /\ requests' = <<>>
             /\ rangeErr' = Nil
             /\ rpc' = "check"
             /\ UNCHANGED ctxDone
    /\ UNCHANGED <<pid, statsVars, fnVars, clientVars, stepVars, buildVars>>

\* GetMINInverterHistoryRange has returned an error: run returns it wrapped
ExportFetchFails ==
    /\ export.pc = "fetch"
    /\ rpc = "returned"
    /\ rangeErr # Nil
    /\ export' = [export EXCEPT !.pc = "returned", !.err = ErrFetching(rangeErr)]
    /\ UNCHANGED <<pid, statsVars, fnVars, rangeVars, clientVars, stepVars, buildVars>>

\* GetMINInverterHistoryRange has returned its records and no error: the
\* file names are made and the raw CSV is written
ExportFetched ==
    /\ export.pc = "fetch"
    /\ rpc = "returned"
    /\ rangeErr = Nil
    /\ export' = IF Len(results) = 0
                 THEN [export EXCEPT !.pc = "returned", !.err = ErrNoData]
                 ELSE [export EXCEPT !.pc = "loop", !.n = Len(results),
                                     !.written = @ \cup {export.files.rawCSVFile}]
    /\ UNCHANGED <<pid, statsVars, fnVars, rangeVars, clientVars, stepVars, buildVars>>

\* one iteration of the "Parse and aggregate to hourly" loop of this run
ExportDay ==
    /\ export.pc = "loop"
    /\ pdIdx < export.n
    /\ AggregateDay(ParsePowerData(results[pdIdx + 1]))

\* writeHourlyCSV(hourlyCSVFile, dailyStats)
ExportHourly ==
    /\ export.pc = "loop"
    /\ pdIdx = export.n
    /\ rows' = GetHourlyRows(days)
    /\ op' = "GetHourlyRows"
    /\ export' = [export EXCEPT !.pc = "hourly",
                                 !.written = @ \cup {export.files.hourlyCSVFile}]
    /\ UNCHANGED <<h, finalized, data, stats, pdIdx, powerData, days, multiDay,
                   aggCalls, pid, fnVars, rangeVars, clientVars, stepVars, buildVars>>

\* the statistics file is written for every range of more than one date
ExportStatsAlways ==
    /\ export.pc = "hourly"
    /\ IF export.files.statsFile # NoFile
       THEN /\ multiDay' = AggregateDays(days)
            /\ aggCalls' = aggCalls + 1
            /\ op' = "AggregateDays"
            /\ export' = [export EXCEPT !.pc = "returned",
                                         !.written = @ \cup {export.files.statsFile}]
       ELSE /\ export' = [export EXCEPT !.pc = "returned"]
            /\ UNCHANGED <<multiDay, aggCalls, op>>
    /\ UNCHANGED <<h, finalized, data, stats, pdIdx, powerData, days, rows,
                   pid, fnVars, rangeVars, clientVars, stepVars, buildVars>>

\* "Write multi-day stats if applicable", and return nil
ExportStats ==
    /\ export.pc = "hourly"
    /\ IF Len(days) > 1 /\ export.files.statsFile # NoFile
       THEN /\ multiDay' = AggregateDays(days)
            /\ aggCalls' = aggCalls + 1
            /\ op' = "AggregateDays"
            /\ export' = [export EXCEPT !.pc = "returned",
                                         !.written = @ \cup {export.files.statsFile}]
       ELSE /\ export' = [export EXCEPT !.pc = "returned"]
            /\ UNCHANGED <<multiDay, aggCalls, op>>
    /\ UNCHANGED <<h, finalized, data, stats, pdIdx, powerData, days, rows,
                   pid, fnVars, rangeVars, clientVars, stepVars, buildVars>>

\* AggregateToHourly(data) is called: nil for an empty list, else the
\* DailyStats is allocated with its 24 nil buckets
CallAggregateToHourly ==
    /\ hourly.pc = "idle"
    /\ \E d \in InputsOn(DateOf(0), SampleHours, StepPowers, MaxSamples) :
        hourly' = IF Len(d) = 0
                  THEN [pc |-> "returned", data |-> d, i |-> 0, Date |-> <<>>,
                        Hours |-> [hr \in HourIdx |-> Nil], events |-> <<>>,
                        result |-> Nil]
                  ELSE [pc |-> "init", data |-> d, i |-> 0,
                        Date |-> FormatDate(d[1].Date),
                        Hours |-> [hr \in HourIdx |-> Nil], events |-> <<>>,
                        result |-> Nil]
    /\ UNCHANGED <<statsVars, fnVars, rangeVars, clientVars, cliVars, heap, frame,
                   buildVars>>

\* one iteration of "Initialize all hours"
StepInit ==
    /\ hourly.pc = "init"
    /\ hourly' = [hourly EXCEPT
                     !.Hours[hourly.i] = NewHourlyStats(hourly.i),
                     !.events = Append(@, [ev |-> "New", hour |-> hourly.i]),
                     !.i = IF hourly.i + 1 < HoursPerDay THEN @ + 1 ELSE 1,
                     !.pc = IF hourly.i + 1 < HoursPerDay THEN "init" ELSE "add"]
    /\ UNCHANGED <<statsVars, fnVars, rangeVars, clientVars, cliVars, heap, frame,
                   buildVars>>

\* one iteration of the loop over the samples that finalizes the bucket as
\* soon as a value is added to it
StepAddFinalizing ==
    /\ hourly.pc = "add"
    /\ LET p == hourly.data[hourly.i]
           valid == p.Hour >= 0 /\ p.Hour < HoursPerDay
       IN  hourly' = [hourly EXCEPT
                        !.Hours = IF valid
                                  THEN [AddSample(@, p) EXCEPT
                                           ![p.Hour] = Finalize(@)]
                                  ELSE @,
                        !.events = IF valid
                                   THEN @ \o <<[ev |-> "Add", hour |-> p.Hour],
                                               [ev |-> "Finalize", hour |-> p.Hour]>>
                                   ELSE @,
                        !.i = IF hourly.i < Len(hourly.data) THEN @ + 1 ELSE 0,
                        !.pc = IF hourly.i < Len(hourly.data) THEN "add"
                               ELSE "finalize"]
    /\ UNCHANGED <<statsVars, fnVars, rangeVars, clientVars, cliVars, heap, frame,
                   buildVars>>

\* one iteration of "Add values to appropriate hours"
StepAdd ==
    /\ hourly.pc = "add"
    /\ LET p == hourly.data[hourly.i]
           valid == p.Hour >= 0 /\ p.Hour < HoursPerDay
       IN  hourly' = [hourly EXCEPT
                        !.Hours = AddSample(@, p),
                        !.events = IF valid
                                   THEN Append(@, [ev |-> "Add", hour |-> p.Hour])
                                   ELSE @,
                        !.i = IF hourly.i < Len(hourly.data) THEN @ + 1 ELSE 0,
                        !.pc = IF hourly.i < Len(hourly.data) THEN "add"
                               ELSE "finalize"]
    /\ UNCHANGED <<statsVars, fnVars, rangeVars, clientVars, cliVars, heap, frame,
                   buildVars>>

\* one iteration of "Finalize all hours"; after the last one stats is
\* returned
StepFinalize ==
    /\ hourly.pc = "finalize"
    /\ LET hours == [hourly.Hours EXCEPT ![hourly.i] = Finalize(@)]
           last == hourly.i + 1 = HoursPerDay
       IN  hourly' = [hourly EXCEPT
                        !.Hours = hours,
                        !.events = Append(@, [ev |-> "Finalize", hour |-> hourly.i]),
                        !.i = IF last THEN @ ELSE @ + 1,
                        !.pc = IF last THEN "returned" ELSE "finalize",
                        !.result = IF last
                                   THEN [Date |-> hourly.Date, Hours |-> hours]
                                   ELSE @]
    /\ UNCHANGED <<statsVars, fnVars, rangeVars, clientVars, cliVars, heap, frame,
                   buildVars>>

-----------------------------------------------------------------------------
(* AggregateDays, statement by statement, on objects reached by pointers *)

\* the value a pointer p leads to in the heap mem, with the buckets of a
\* DailyStats (day.Hours[hour]) and the aggregates of a MultiDayStats
\* (result.ByHour[hour]) followed; a nil pointer gives Nil
Deref(mem, p) ==
    IF p = 0 THEN Nil
    ELSE LET At(q) == IF q = 0 THEN Nil ELSE mem[q]
         IN  IF "Hours" \in DOMAIN mem[p]
             THEN [mem[p] EXCEPT !.Hours = [i \in HourIdx |-> At(mem[p].Hours[i])]]
             ELSE IF "ByHour" \in DOMAIN mem[p]
                  THEN [mem[p] EXCEPT
                           !.ByHour = [i \in HourIdx |-> At(mem[p].ByHour[i])]]
                  ELSE mem[p]

\* a caller aggregates the samples of two dates as run does, here one
\* reading of 0.1 W or 1 W at 12:00 on each: each AggregateToHourly call
\* allocates a DailyStats and its 24 buckets
BuildDays ==
    /\ frame.pc = "start"
    /\ \E a \in InputsOn(DateOf(0), {12}, {1, 10}, 1) \ {<<>>},
          b \in InputsOn(DateOf(1), {12}, {1, 10}, 1) \ {<<>>} :
        LET Objects(base, day) ==
                <<[Date |-> day.Date,
                   Hours |-> [i \in HourIdx |-> base + 2 + i]]>>
                    \o [k \in 1 .. HoursPerDay |-> day.Hours[k - 1]]
        IN  heap' = Objects(0, AggregateToHourly(a))
                        \o Objects(1 + HoursPerDay, AggregateToHourly(b))
    /\ frame' = [frame EXCEPT !.pc = "idle"]
    /\ UNCHANGED <<statsVars, fnVars, rangeVars, clientVars, cliVars, hourly,
                   buildVars>>

\* AggregateDays(days) is called on a list of pointers to the days the caller
\* holds (a day may be listed twice): nil for an empty list, else the
\* MultiDayStats is allocated, its other fields zero
AggregateDaysEnter ==
    /\ frame.pc \in {"idle", "returned"}
    /\ Len(frame.returned) < MaxAggCalls
    /\ \E n \in 0 .. MaxListed :
        \E ds \in [1 .. n -> {p \in 1 .. Len(heap) : "Hours" \in DOMAIN heap[p]}] :
            IF Len(ds) = 0
            THEN /\ frame' = [frame EXCEPT
                                !.pc = "returned", !.days = ds,
                                !.returned = Append(@, [days |-> ds, result |-> 0])]
                 /\ heap' = heap
            ELSE /\ heap' = Append(heap,
                            [StartDate |-> heap[ds[1]].Date,
                             EndDate |-> heap[ds[Len(ds)]].Date,
                             DaysAnalyzed |-> Len(ds),
                             ByHour |-> [i \in HourIdx |-> 0],
                             TotalProduction |-> Zero,
                             DailyAverage |-> Zero,
                             PeakHour |-> 0,
                             PeakPowerAvg |-> Zero])
                 /\ frame' = [frame EXCEPT
                                !.pc = "init", !.days = ds, !.base = Len(heap),
                                !.result = Len(heap) + 1, !.i = 0, !.day = 0]
    /\ UNCHANGED <<statsVars, fnVars, rangeVars, clientVars, cliVars, hourly,
                   buildVars>>

\* one iteration of "Initialize hourly aggregates":
\* result.ByHour[i] = &AggregatedHourStats{...}
StepInitByHour ==
    /\ frame.pc = "init"
    /\ heap' = [Append(heap, InitByHour[frame.i]) EXCEPT
                   ![frame.result].ByHour[frame.i] = Len(heap) + 1]
    /\ frame' = IF frame.i + 1 < HoursPerDay
                THEN [frame EXCEPT !.i = @ + 1]
                ELSE [frame EXCEPT !.pc = "fold", !.day = 1, !.i = 0]
    /\ UNCHANGED <<statsVars, fnVars, rangeVars, clientVars, cliVars, hourly,
                   buildVars>>

\* one iteration of "Aggregate data from all days", for one day and one
\* hour: hourStats := day.Hours[hour], agg := result.ByHour[hour], and the
\* writes through agg
StepFold ==
    /\ frame.pc = "fold"
    /\ LET day == heap[frame.days[frame.day]]
           hourStats == day.Hours[frame.i]
           agg == heap[frame.result].ByHour[frame.i]
       IN  heap' = [heap EXCEPT ![agg] = FoldHour(@, Deref(heap, hourStats))]
    /\ frame' = IF frame.i + 1 < HoursPerDay
                THEN [frame EXCEPT !.i = @ + 1]
                ELSE IF frame.day < Len(frame.days)
                     THEN [frame EXCEPT !.day = @ + 1, !.i = 0]
                     ELSE [frame EXCEPT !.pc = "maxAvg"]
    /\ UNCHANGED <<statsVars, fnVars, rangeVars, clientVars, cliVars, hourly,
                   buildVars>>

\* StepMaxAvg with maxAvg a variable of the package, set to zero once when
\* the program starts
StepMaxAvgOfPackage ==
    /\ frame.pc = "maxAvg"
    /\ frame' = [frame EXCEPT !.pc = "final", !.i = 0]
    /\ UNCHANGED <<statsVars, fnVars, rangeVars, clientVars, cliVars, hourly,
                   heap, buildVars>>

\* "var maxAvg float64": the variable of the function starts at zero in
\* every call
StepMaxAvg ==
    /\ frame.pc = "maxAvg"
    /\ frame' = [frame EXCEPT !.maxAvg = Zero, !.pc = "final", !.i = 0]
    /\ UNCHANGED <<statsVars, fnVars, rangeVars, clientVars, cliVars, hourly,
                   heap, buildVars>>

\* one iteration of "Calculate final statistics for each hour": the writes
\* through agg, and the peak written to maxAvg and to the result
StepFinalizeAgg ==
    /\ frame.pc = "final"
    /\ LET agg == heap[frame.result].ByHour[frame.i]
           final == FinalizeAgg(heap[agg])
           peak == PeakUpdates(final, frame.maxAvg)
       IN  /\ heap' = [[heap EXCEPT ![agg] = final] EXCEPT
                          ![frame.result] =
                              IF peak
                              THEN [@ EXCEPT !.PeakHour = frame.i,
                                             !.PeakPowerAvg = final.Average]
                              ELSE @]
           /\ frame' = [frame EXCEPT
                           !.maxAvg = IF peak THEN final.Average ELSE @,
                           !.i = IF frame.i + 1 < HoursPerDay THEN @ + 1 ELSE 0,
                           !.day = IF frame.i + 1 < HoursPerDay THEN @ ELSE 1,
                           !.pc = IF frame.i + 1 < HoursPerDay THEN "final"
                                  ELSE "energy"]
    /\ UNCHANGED <<statsVars, fnVars, rangeVars, clientVars, cliVars, hourly,
                   buildVars>>

\* one iteration of the loop over the days of "Calculate total and daily
\* average production": result.TotalProduction += dailyEnergy
StepEnergy ==
    /\ frame.pc = "energy"
    /\ heap' = [heap EXCEPT
                   ![frame.result].TotalProduction =
                       RAdd(@, DailyEnergy(Deref(heap, frame.days[frame.day]),
                                           1, Zero))]
    /\ frame' = IF frame.day < Len(frame.days)
                THEN [frame EXCEPT !.day = @ + 1]
                ELSE [frame EXCEPT !.pc = "average"]
    /\ UNCHANGED <<statsVars, fnVars, rangeVars, clientVars, cliVars, hourly,
                   buildVars>>

\* result.DailyAverage is set and result is returned
StepReturn ==
    /\ frame.pc = "average"
    /\ heap' = [heap EXCEPT
                   ![frame.result].DailyAverage =
                       IF heap[frame.result].DaysAnalyzed > 0
                       THEN RDivInt(heap[frame.result].TotalProduction,
                                    heap[frame.result].DaysAnalyzed)
                       ELSE @]
    /\ frame' = [frame EXCEPT
                    !.pc = "returned",
                    !.returned = Append(@, [days |-> frame.days,
                                            result |-> frame.result])]
    /\ UNCHANGED <<statsVars, fnVars, rangeVars, clientVars, cliVars, hourly,
                   buildVars>>

\* a user of the package on a date range: the days are aggregated one by
\* one, then the rows and the multi-day statistics are asked for
Next == RunDay \/ CallGetHourlyRows \/ CallAggregateDays

Spec == Init /\ [][Next]_vars

\* a user of the package on a single date
NextHourly == RunSingleDay \/ CallGetHourlyRows \/ CallAggregateDays

SpecHourly == Init /\ [][NextHourly]_vars

\* a user of the package on a date range with the readings of the
\* end-to-end scenario
NextE2E == RunDayE2E \/ CallGetHourlyRows \/ CallAggregateDays

SpecE2E == Init /\ [][NextE2E]_vars

\* a user of the package: the two pure functions called directly, or the
\* aggregation of a date range
NextStats ==
    \/ CallCalculateStdDev
    \/ CallCalculateMedian
    \/ RunDay
    \/ CallGetHourlyRows
    \/ CallAggregateDays

SpecStats == Init /\ [][NextStats]_vars

\* a range fetch of the client and the caller's context
NextRange ==
    \/ CallRange
    \/ CancelCtx
    \/ RangeReturn
    \/ RangeCancelled
    \/ RangeProceed
    \/ ThrottleSince
    \/ ThrottleCompare
    \/ ThrottleSleep
    \/ ThrottleWake
    \/ ThrottleStamp
    \/ ThrottleRelease
    \/ DayFetchOk
    \/ DayFetchFails
    \/ Tick

SpecRange == Init /\ [][NextRange]_vars

\* the users of one client: two goroutines that make requests, and the
\* rate limit set at any moment
NextClient ==
    \/ CallSetRateLimit
    \/ Tick
    \/ CallAPI
    \/ ThrottleSince
    \/ ThrottleCompare
    \/ ThrottleSleep
    \/ ThrottleWake
    \/ ThrottleStamp
    \/ ThrottleRelease
    \/ ApiReturn

SpecClient == Init /\ [][NextClient]_vars

\* the command line tool: the resolution of the plant ID, and a run
NextExport ==
    \/ CallResolvePlantID
    \/ ResolveFlag
    \/ ResolveEnv
    \/ ResolveListPlants
    \/ ResolveList
    \/ ExportStart
    \/ RangeProceed
    \/ ThrottleSince
    \/ ThrottleCompare
    \/ ThrottleSleep
    \/ ThrottleWake
    \/ ThrottleStamp
    \/ ThrottleRelease
    \/ DayFetchOk
    \/ DayFetchFails
    \/ RangeReturn
    \/ Tick
    \/ ExportFetchFails
    \/ ExportFetched
    \/ ExportDay
    \/ ExportHourly
    \/ ExportStats

SpecExport == Init /\ [][NextExport]_vars

\* one AggregateToHourly call, statement by statement
NextHourlySteps == CallAggregateToHourly \/ StepInit \/ StepAdd \/ StepFinalize

SpecHourlySteps == Init /\ [][NextHourlySteps]_vars

\* a caller driving one bucket through its methods
NextBucket == CallNewHourlyStats \/ CallAddValue \/ CallFinalize

SpecBucket == Init /\ [][NextBucket]_vars

\* AggregateDays called on the days a caller holds, statement by statement
NextDaysSteps ==
    \/ BuildDays
    \/ AggregateDaysEnter
    \/ StepInitByHour
    \/ StepFold
    \/ StepMaxAvg
    \/ StepFinalizeAgg
    \/ StepEnergy
    \/ StepReturn

SpecDaysSteps == Init /\ [][NextDaysSteps]_vars

-----------------------------------------------------------------------------
(* Helpers of the properties *)

IsValidHour(hr) == hr \in HourIdx

\* the power values of the samples of d whose hour is hr, in input order
PowersAt(d, hr) ==
    LET sel == SelectSeq(d, LAMBDA p : p.Hour = hr)
    IN  [k \in 1 .. Len(sel) |-> sel[k].Power]

\* the samples of d with a valid hour, in input order
ValidSamples(d) == SelectSeq(d, LAMBDA p : IsValidHour(p.Hour))

\* the float64 sum of a list of values added up in the order of the list
RECURSIVE SeqSum(_)
SeqSum(seq) ==
    IF Len(seq) = 0 THEN Zero
    ELSE RAdd(SeqSum(SubSeq(seq, 1, Len(seq) - 1)), seq[Len(seq)])

\* x is the least (greatest) element of the non-empty list seq
IsMinOf(x, seq) ==
    /\ \E k \in 1 .. Len(seq) : seq[k] = x
    /\ \A k \in 1 .. Len(seq) : RLe(x, seq[k])
IsMaxOf(x, seq) ==
    /\ \E k \in 1 .. Len(seq) : seq[k] = x
    /\ \A k \in 1 .. Len(seq) : RLe(seq[k], x)

\* the days of ds whose bucket of hour hr holds samples, in input order
Contributing(ds, hr) ==
    SelectSeq(ds, LAMBDA day : day.Hours[hr].Samples > 0)

\* one value per contributing day: that day's mean at hour hr
DayMeans(ds, hr) ==
    LET c == Contributing(ds, hr)
    IN  [k \in 1 .. Len(c) |-> c[k].Hours[hr].Mean]
DayMins(ds, hr) ==
    LET c == Contributing(ds, hr)
    IN  [k \in 1 .. Len(c) |-> c[k].Hours[hr].Min]
DayMaxs(ds, hr) ==
    LET c == Contributing(ds, hr)
    IN  [k \in 1 .. Len(c) |-> c[k].Hours[hr].Max]

\* every sample of hour hr over all days, by day
RECURSIVE AllValues(_, _)
AllValues(ds, hr) ==
    IF Len(ds) = 0 THEN <<>>
    ELSE Head(ds).Hours[hr].Values \o AllValues(Tail(ds), hr)

\* x is the element of rank r (from 0) of the list seq in ascending order
IsRank(x, seq, r) ==
    /\ \E k \in 1 .. Len(seq) : seq[k] = x
    /\ Cardinality({k \in 1 .. Len(seq) : RLt(seq[k], x)}) <= r
    /\ Cardinality({k \in 1 .. Len(seq) : RLe(seq[k], x)}) >= r + 1

\* m is the median of the non-empty list seq
IsMedianOf(m, seq) ==
    LET n == Len(seq)
    IN  IF n % 2 = 1 THEN IsRank(m, seq, n \div 2)
        ELSE \E i, j \in 1 .. n :
                /\ IsRank(seq[i], seq, (n \div 2) - 1)
                /\ IsRank(seq[j], seq, n \div 2)
                /\ RAdd(m, m) = RAdd(seq[i], seq[j])

\* the float64 sum of the squared differences of the entries of seq from
\* mean, added up in the order of the list; each square is rounded before
\* it is added, or (fma) added exactly and the sum rounded
RECURSIVE DevSquareSum(_, _, _)
DevSquareSum(seq, mean, fma) ==
    IF Len(seq) = 0 THEN Zero
    ELSE LET before == DevSquareSum(SubSeq(seq, 1, Len(seq) - 1), mean, fma)
             dev == RSub(seq[Len(seq)], mean)
         IN  IF fma THEN FMA(dev, dev, before) ELSE RAdd(before, RMul(dev, dev))

\* sd is the sample standard deviation (denominator n - 1) of the list seq
\* about avg, in float64: the root of the sum of the squared differences
\* divided by n - 1
IsSampleStdDevOf(sd, seq, avg) ==
    LET n == Len(seq)
    IN  IF n < 2 THEN sd = Sqrt(Zero)
        ELSE \E fma \in BOOLEAN :
                sd = Sqrt(RDivInt(DevSquareSum(seq, avg, fma), n - 1))

\* a Min or Max field that still holds an accumulation sentinel
IsSentinel(x) == x = MaxFloat64 \/ x = NegMaxFloat64

-----------------------------------------------------------------------------
(* Properties *)

\* C1: AggregateToHourly on an empty sample list returns nil and
\* AggregateDays on an empty list of days returns nil; no object of zeros
\* is produced in either case.
C1_EmptyInputNoResult ==
    /\ (op # "start" /\ Len(data) = 0) => stats = Nil
    /\ (op = "AggregateDays" /\ Len(days) = 0) => multiDay = Nil

C1_Witness ==
    /\ pdIdx = 1 /\ Len(data) = 0 /\ stats = Nil
    /\ op = "AggregateDays" /\ Len(days) = 0 /\ multiDay = Nil

\* C2: a non-empty sample list in which every hour is outside 0..23 makes
\* AggregateToHourly return nil, as an empty list does.
C2_AllInvalidHoursNoResult ==
    (/\ op # "start"
     /\ Len(data) > 0
     /\ \A k \in 1 .. Len(data) : ~IsValidHour(data[k].Hour))
        => stats = Nil

\* C6: the bucket of hour hr holds exactly the samples of that hour: their
\* count, sum, values in input order, minimum and maximum; the counts of the
\* 24 buckets add up to the number of samples with a valid hour.
C6_BucketsPartitionSamples ==
    stats # Nil =>
        /\ \A hr \in HourIdx :
            LET b == stats.Hours[hr]
                vals == PowersAt(data, hr)
            IN  /\ b.Samples = Len(vals)
                /\ b.Sum = SeqSum(vals)
                /\ b.Values = vals
                /\ Len(vals) > 0 => IsMinOf(b.Min, vals) /\ IsMaxOf(b.Max, vals)
        /\ SamplesIn(<<stats>>) = Len(ValidSamples(data))

C6_Witness ==
    /\ stats # Nil
    /\ Len(data) = 2
    /\ data[1].Hour = 12 /\ data[2].Hour = 12
    /\ RLt(data[2].Power, data[1].Power)
    /\ stats.Hours[12].Samples = 2
    /\ stats.Hours[12].Min = data[2].Power

\* C7: a sample whose hour is outside 0..23 is discarded: the buckets are
\* those of the list without such samples, and the call still returns a
\* result for a non-empty list.
C7_InvalidHourDiscarded ==
    (op # "start" /\ Len(data) > 0) =>
        /\ stats # Nil
        /\ stats.Hours = FinalizeHours(AddSamples(InitHours, ValidSamples(data), 1))

C7_Witness ==
    /\ stats # Nil
    /\ Len(data) = 2
    /\ data[1].Hour = 24 /\ data[2].Hour = 0
    /\ stats.Hours[0].Samples = 1

\* C8: a bucket that received no sample has, after Finalize, Min = 0,
\* Max = 0, Mean = 0 and StdDev = 0.
C8_EmptyBucketNormalized ==
    (h # Nil /\ finalized /\ h.Samples = 0) =>
        /\ h.Min = Zero
        /\ h.Max = Zero
        /\ h.Mean = Zero
        /\ h.StdDev = Sqrt(Zero)

C8_Witness ==
    h # Nil /\ op = "Finalize" /\ finalized /\ h.Samples = 0 /\ h.Min = Zero

\* C10: once Finalize has been called on a bucket, a further AddValue does
\* not change the bucket.
C10_NoMutationAfterFinalize ==
    [][(finalized /\ op' = "AddValue") => h' = h]_vars

\* C3 as stated: PeakHour is the lowest hour whose Average is the largest of
\* the 24 averages and PeakPowerAvg is that average, for any power values.
C3_PeakIsArgmax ==
    multiDay # Nil =>
        LET byHour == multiDay.ByHour
            peak == byHour[multiDay.PeakHour].Average
        IN  /\ \A hr \in HourIdx : RLe(byHour[hr].Average, peak)
            /\ \A hr \in HourIdx : hr < multiDay.PeakHour => RLt(byHour[hr].Average, peak)
            /\ multiDay.PeakPowerAvg = peak

\* C3 as amended: when some hour has a positive Average, PeakHour is the
\* lowest hour whose Average is the largest of the 24 averages and
\* PeakPowerAvg is that average; when no hour has a positive Average,
\* PeakHour = 0 and PeakPowerAvg = 0.
C3_PeakOfPositiveAverages ==
    multiDay # Nil =>
        LET byHour == multiDay.ByHour
            peak == byHour[multiDay.PeakHour].Average
        IN  IF \E hr \in HourIdx : RGt(byHour[hr].Average, Zero)
            THEN /\ \A hr \in HourIdx : RLe(byHour[hr].Average, peak)
                 /\ \A hr \in HourIdx :
                        hr < multiDay.PeakHour => RLt(byHour[hr].Average, peak)
                 /\ multiDay.PeakPowerAvg = peak
            ELSE multiDay.PeakHour = 0 /\ multiDay.PeakPowerAvg = Zero

\* two hours tie for the largest average and the lower one is the peak
C3_Witness ==
    /\ multiDay # Nil
    /\ RGt(multiDay.ByHour[0].Average, Zero)
    /\ multiDay.ByHour[12].Average = multiDay.ByHour[0].Average
    /\ multiDay.PeakHour = 0
    /\ multiDay.PeakPowerAvg = multiDay.ByHour[0].Average

\* C4: the cross-day Min (Max) of an hour is the least Min (greatest Max) of
\* the buckets of that hour over exactly the days whose bucket holds samples.
C4_MinMaxOverContributingDays ==
    multiDay # Nil =>
        \A hr \in HourIdx :
            Len(Contributing(days, hr)) > 0 =>
                /\ IsMinOf(multiDay.ByHour[hr].Min, DayMins(days, hr))
                /\ IsMaxOf(multiDay.ByHour[hr].Max, DayMaxs(days, hr))

\* a day without samples at hour 12 beside a day whose samples there are all
\* positive: the minimum stays positive
C4_Witness ==
    /\ multiDay # Nil
    /\ \E j, k \in 1 .. Len(days) :
        /\ days[j].Hours[12].Samples = 0
        /\ days[k].Hours[12].Samples > 0
    /\ RGt(multiDay.ByHour[12].Min, Zero)

\* C5: Average, Median and StdDev of an hour are the mean, the median and
\* the sample standard deviation of the list of the contributing days' means.
C5_StatsOverDayMeans ==
    multiDay # Nil =>
        \A hr \in HourIdx :
            LET agg == multiDay.ByHour[hr]
                means == DayMeans(days, hr)
            IN  Len(means) > 0 =>
                    /\ agg.Average = RDivInt(SeqSum(means), Len(means))
                    /\ IsMedianOf(agg.Median, means)
                    /\ IsSampleStdDevOf(agg.StdDev, means, agg.Average)

\* two days with different sample counts at hour 12: the average of their
\* means differs from the mean of their samples
C5_Witness ==
    /\ multiDay # Nil
    /\ \E j, k \in 1 .. Len(days) :
        /\ days[j].Hours[12].Samples > 0
        /\ days[k].Hours[12].Samples > days[j].Hours[12].Samples
    /\ LET all == AllValues(days, 12)
       IN  multiDay.ByHour[12].Average # RDivInt(SeqSum(all), Len(all))

\* C9: no Min or Max of a returned DailyStats, MultiDayStats or row holds an
\* accumulation sentinel.
C9_NoSentinelObservable ==
    /\ stats # Nil =>
        \A hr \in HourIdx :
            ~IsSentinel(stats.Hours[hr].Min) /\ ~IsSentinel(stats.Hours[hr].Max)
    /\ \A k \in 1 .. Len(days) : \A hr \in HourIdx :
            ~IsSentinel(days[k].Hours[hr].Min) /\ ~IsSentinel(days[k].Hours[hr].Max)
    /\ multiDay # Nil =>
        \A hr \in HourIdx :
            ~IsSentinel(multiDay.ByHour[hr].Min) /\ ~IsSentinel(multiDay.ByHour[hr].Max)
    /\ \A k \in 1 .. Len(rows) :
            ~IsSentinel(rows[k].Min) /\ ~IsSentinel(rows[k].Max)

\* all three results exist, with hours that hold samples and hours that do not
C9_Witness ==
    /\ Len(days) > 1
    /\ multiDay # Nil
    /\ Len(rows) > 0
    /\ multiDay.ByHour[0].SampleDays = 0
    /\ multiDay.ByHour[12].SampleDays > 0
    /\ \E k \in 1 .. Len(rows) : rows[k].Samples = 0 /\ rows[k].Min = Zero

\* C11: every DailyStats produced by AggregateToHourly has a bucket in each
\* of its 24 hour slots, none of them nil, and the Hour field of a bucket is
\* its index, for hours that received no sample as well.
C11_AllHoursPopulated ==
    /\ stats # Nil =>
        /\ DOMAIN stats.Hours = 0 .. 23
        /\ \A hr \in 0 .. 23 : stats.Hours[hr] # Nil /\ stats.Hours[hr].Hour = hr
    /\ \A k \in 1 .. Len(days) :
        /\ DOMAIN days[k].Hours = 0 .. 23
        /\ \A hr \in 0 .. 23 : days[k].Hours[hr] # Nil /\ days[k].Hours[hr].Hour = hr

\* a day whose only sample is at hour 12: hours 0 and 23 hold empty buckets
C11_Witness ==
    /\ stats # Nil
    /\ Len(data) = 1 /\ data[1].Hour = 12
    /\ stats.Hours[12].Samples = 1
    /\ stats.Hours[0].Samples = 0 /\ stats.Hours[0].Hour = 0
    /\ stats.Hours[23].Samples = 0 /\ stats.Hours[23].Hour = 23

\* C12: CalculateStdDev returns 0 for a list of 0 or 1 values whatever the
\* mean argument, and for n >= 2 values the root of the sum of the squared
\* differences from the mean argument divided by n - 1; a bucket with fewer
\* than 2 samples and an hour aggregate with fewer than 2 contributing days
\* have StdDev = 0.
C12_StdDevOfFewValues ==
    /\ op = "CalculateStdDev" =>
        LET n == Len(fnValues)
        IN  IF n < 2 THEN fnResult = Sqrt(Zero)
            ELSE \E fma \in BOOLEAN :
                    fnResult = Sqrt(RDivInt(DevSquareSum(fnValues, fnMean, fma), n - 1))
    /\ \A k \in 1 .. Len(days) : \A hr \in HourIdx :
            days[k].Hours[hr].Samples < 2 => days[k].Hours[hr].StdDev = Sqrt(Zero)
    /\ multiDay # Nil =>
        \A hr \in HourIdx :
            multiDay.ByHour[hr].SampleDays < 2 => multiDay.ByHour[hr].StdDev = Sqrt(Zero)

\* one value and a mean argument that differs from it
C12_Witness ==
    /\ op = "CalculateStdDev"
    /\ Len(fnValues) = 1
    /\ fnMean # fnValues[1]
    /\ fnResult = Sqrt(Zero)

\* C13: CalculateMedian returns 0 for an empty list and the median of a
\* non-empty list given in any order (the middle element in ascending order
\* for an odd count, the average of the two middle ones for an even count),
\* and the caller's list is in its original order after the call.
C13_MedianOfAnyOrder ==
    op = "CalculateMedian" =>
        /\ Len(fnValues) = 0 => fnResult = Zero
        /\ Len(fnValues) > 0 => IsMedianOf(fnResult, fnValues)
        /\ fnAfter = fnValues

\* four values out of order whose median is none of them
C13_Witness ==
    /\ op = "CalculateMedian"
    /\ Len(fnValues) = 4
    /\ RLt(fnValues[2], fnValues[1])
    /\ \A k \in 1 .. 4 : fnValues[k] # fnResult
    /\ fnAfter = fnValues

\* C14: an hour to which no day contributed (SampleDays = 0) has Min = 0,
\* Max = 0, Average = 0, Median = 0 and StdDev = 0 in the result of
\* AggregateDays.
C14_EmptyHourAllZero ==
    multiDay # Nil =>
        \A hr \in HourIdx :
            multiDay.ByHour[hr].SampleDays = 0 =>
                /\ Len(Contributing(days, hr)) = 0
                /\ multiDay.ByHour[hr].Min = Zero
                /\ multiDay.ByHour[hr].Max = Zero
                /\ multiDay.ByHour[hr].Average = Zero
                /\ multiDay.ByHour[hr].Median = Zero
                /\ multiDay.ByHour[hr].StdDev = Sqrt(Zero)

\* no day has a sample at hour 0, while hour 12 has samples on two days and
\* a negative minimum
C14_Witness ==
    /\ multiDay # Nil
    /\ multiDay.ByHour[0].SampleDays = 0
    /\ multiDay.ByHour[0].Min = Zero
    /\ multiDay.ByHour[12].SampleDays = 2
    /\ RLt(multiDay.ByHour[12].Min, Zero)

\* the hourly means of a day divided by 1000, hour by hour
KilowattMeans(day) == [i \in 1 .. 24 |-> RDivInt(day.Hours[i - 1].Mean, 1000)]

\* the entries of a list that are not 0, in order: they decide its sum
NonZero(seq) == SelectSeq(seq, LAMBDA m : m # Zero)

\* the cross-day averages of the 24 hours as a list
Averages(md) == [i \in 1 .. 24 |-> md.ByHour[i - 1].Average]

\* the day ds[k] has a non-zero mean at hour 12 only, of w watts
OnlyNoon(day, w) ==
    \A hr \in HourIdx : day.Hours[hr].Mean = (IF hr = 12 THEN Rat(w) ELSE Zero)

\* C15: TotalProduction is the sum over all days, of the sum over all hours,
\* of the day's hourly Mean divided by 1000, in float64; a list of days each with a mean of 4500 W at
\* hour 12 and nothing else totals 4.5 kWh per day.
C15_TotalFromDayMeans ==
    multiDay # Nil =>
        /\ multiDay.TotalProduction
              = SeqSum([k \in 1 .. Len(days) |->
                            SeqSum(NonZero(KilowattMeans(days[k])))])
        /\ (\A k \in 1 .. Len(days) : OnlyNoon(days[k], 4500)) =>
                multiDay.TotalProduction = RDivInt(Rat(9 * Len(days)), 2)

\* a day with 4500 W at hour 12 only and a day with 4500 W at hour 0 only:
\* 9 kWh in all, while the cross-day averages add up to 9 kWh per day
C15_Witness ==
    /\ multiDay # Nil
    /\ Len(days) = 2
    /\ OnlyNoon(days[1], 4500)
    /\ days[2].Hours[0].Mean = Rat(4500)
    /\ multiDay.TotalProduction = Rat(9)
    /\ RMul(multiDay.TotalProduction, Rat(1000))
            # RMul(Rat(Len(days)), SeqSum(NonZero(Averages(multiDay))))

\* the values of the days of the i-th AggregateDays call that returned, in
\* the order of its list, in the heap mem
ListedDays(mem, i) ==
    [k \in 1 .. Len(frame.returned[i].days) |->
        Deref(mem, frame.returned[i].days[k])]

\* C16: no step of an AggregateDays call writes to an object that existed
\* when the call was made: the DailyStats and HourlyStats it is given, and
\* the results of earlier calls, are as they were.  The function keeps no
\* state between calls: whenever two calls have returned, with any other
\* calls made before and between them, and their lists hold equal days in
\* the same order, the two results are both nil or are two MultiDayStats
\* equal in every field.
C16_AggregateDaysPure ==
    [][/\ \A p \in 1 .. frame'.base : heap'[p] = heap[p]
       /\ \A k \in 1 .. Len(frame'.days) :
            Deref(heap', frame'.days[k]) = Deref(heap, frame'.days[k])
       /\ \A i, j \in 1 .. Len(frame'.returned) :
            LET Days(n) == [k \in 1 .. Len(frame'.returned[n].days) |->
                               Deref(heap', frame'.returned[n].days[k])]
            IN  Days(i) = Days(j) =>
                    Deref(heap', frame'.returned[i].result)
                        = Deref(heap', frame'.returned[j].result)]_vars

\* three calls have returned: the first and the third on the same list of
\* two days, the second on another list with a higher peak; the first and
\* the third result are two objects, with a peak at 12:00
C16_Witness ==
    /\ frame.pc = "returned"
    /\ Len(frame.returned) = 3
    /\ Len(frame.returned[1].days) = 2
    /\ ListedDays(heap, 1) = ListedDays(heap, 3)
    /\ ListedDays(heap, 2) # ListedDays(heap, 1)
    /\ frame.returned[2].result # 0
    /\ frame.returned[1].result # frame.returned[3].result
    /\ heap[frame.returned[3].result].PeakHour = 12
    /\ RLt(heap[frame.returned[3].result].PeakPowerAvg,
           heap[frame.returned[2].result].PeakPowerAvg)
    /\ heap[frame.returned[3].result].ByHour
            # heap[frame.returned[1].result].ByHour

\* the sample lists of three consecutive days, each a single reading at
\* 12:00, of 4000 W, 4500 W and 4200 W
E2EScenario ==
    /\ Len(powerData) = 3
    /\ \A k \in 1 .. 3 :
        /\ Len(powerData[k]) = 1
        /\ powerData[k][1].Hour = 12
        /\ powerData[k][1].Date = [Year |-> 2025, Month |-> 2, Day |-> k]
    /\ powerData[1][1].Power = Rat(4000)
    /\ powerData[2][1].Power = Rat(4500)
    /\ powerData[3][1].Power = Rat(4200)

\* C17: for the scenario AggregateToHourly yields three DailyStats with one
\* sample at hour 12 and none elsewhere, and AggregateDays yields
\* DaysAnalyzed = 3, SampleDays = 3 and Average = 12700/3 at hour 12,
\* PeakHour = 12, TotalProduction = 12.7 and DailyAverage = 12.7 / 3 (the
\* float64 nearest to each).
C17_EndToEnd ==
    E2EScenario =>
        /\ Len(days) = 3
        /\ \A k \in 1 .. 3 : \A hr \in HourIdx :
                days[k].Hours[hr].Samples = (IF hr = 12 THEN 1 ELSE 0)
        /\ multiDay # Nil =>
            /\ multiDay.DaysAnalyzed = 3
            /\ multiDay.ByHour[12].SampleDays = 3
            /\ multiDay.ByHour[12].Average = RDivInt(Rat(12700), 3)
            /\ multiDay.PeakHour = 12
            /\ multiDay.TotalProduction = RDivInt(Rat(127), 10)
            /\ multiDay.DailyAverage = RDivInt(multiDay.TotalProduction, 3)

C17_Witness ==
    /\ E2EScenario
    /\ op = "AggregateDays"
    /\ multiDay # Nil
    /\ multiDay.PeakHour = 12
    /\ multiDay.TotalProduction = RDivInt(Rat(127), 10)

\* the rows are those of a GetHourlyRows call on the present list of days
RowsReturned == op \in {"GetHourlyRows", "AggregateDays"}

\* C18 as stated: every row of the row view belongs to an hour that holds
\* samples.
C18_RowsOnlyWithData ==
    RowsReturned => \A r \in 1 .. Len(rows) : rows[r].Samples > 0

\* C18 as amended: the row view holds exactly one row for every day and
\* every hour 0..23 of the list, and the row of an hour without samples
\* has Samples = 0.
C18_RowPerBucket ==
    RowsReturned =>
        /\ \A k \in 1 .. Len(days) : \A hr \in HourIdx :
                \E r \in 1 .. Len(rows) :
                    /\ rows[r].Hour = hr
                    /\ rows[r].Date = days[k].Date
                    /\ rows[r].Samples = Len(days[k].Hours[hr].Values)
        /\ \A j, k \in 1 .. Len(days) : j < k => days[j].Date # days[k].Date
        /\ Len(rows) = Cardinality((1 .. Len(days)) \X HourIdx)

\* a day with a sample at hour 12 only: a row of hour 0 with no samples
C18_Witness ==
    /\ op = "GetHourlyRows"
    /\ Len(days) = 1
    /\ days[1].Hours[12].Samples > 0
    /\ \E r \in 1 .. Len(rows) : rows[r].Hour = 0 /\ rows[r].Samples = 0
    /\ \E r \in 1 .. Len(rows) : rows[r].Hour = 12 /\ rows[r].Samples > 0

\* C19: for days whose 24 slots are populated GetHourlyRows returns 24 rows
\* per day, the days in input order and the hours ascending within a day,
\* and a row carries the Date of its day and the Hour, Min, Max, Mean (as
\* Avg) and Samples of its bucket.
C19_RowsInOrder ==
    RowsReturned =>
        /\ Len(rows) = 24 * Len(days)
        /\ \A k \in 1 .. Len(days) : \A hr \in 0 .. 23 :
                rows[(24 * (k - 1)) + hr + 1] =
                    [Date |-> days[k].Date, Hour |-> hr,
                     Min |-> days[k].Hours[hr].Min,
                     Max |-> days[k].Hours[hr].Max,
                     Avg |-> days[k].Hours[hr].Mean,
                     Samples |-> days[k].Hours[hr].Samples]

\* two days: 48 rows, the row of hour 12 of the second day is the 37th
C19_Witness ==
    /\ op = "GetHourlyRows"
    /\ Len(days) = 2
    /\ Len(rows) = 48
    /\ rows[37].Hour = 12 /\ rows[37].Samples > 0
    /\ rows[37].Date = days[2].Date /\ rows[37].Date # rows[1].Date

\* the number of the calendar day of a time, counted from a fixed day
DaysBeforeMonth == <<0, 31, 59, 90, 120, 151, 181, 212, 243, 273, 304, 334>>
DayNumber(t) ==
    (365 * t.Year) + ((t.Year - 1) \div 4) - ((t.Year - 1) \div 100)
        + ((t.Year - 1) \div 400) + DaysBeforeMonth[t.Month]
        + (IF t.Month > 2 /\ (t.Year % 4 = 0) /\ (t.Year % 100 # 0 \/ t.Year % 400 = 0)
           THEN 1 ELSE 0)
        + t.Day

\* the string str names the calendar day of number n
NamesDay(str, n) ==
    LET t == ParseDate(str)
    IN  /\ t.Month \in 1 .. 12
        /\ t.Day \in 1 .. 31
        /\ DayNumber(t) = n
        /\ DayNumber([t EXCEPT !.Day = 1]) + t.Day
                <= DayNumber([t EXCEPT !.Month = (@ % 12) + 1, !.Day = 1,
                                       !.Year = IF t.Month = 12 THEN @ + 1 ELSE @])

\* the number of calendar dates from the date of from to the date of to
DatesInRange ==
    IF DayNumber(to) < DayNumber(from) THEN 0
    ELSE DayNumber(to) - DayNumber(from) + 1

\* C20: a range fetch that returns without an error has issued one
\* day-fetch per calendar date from the start date to the end date
\* inclusive, in chronological order, and returns one record per date in
\* that order, with or without samples; it has issued none when the end
\* date is before the start date.
C20_OneFetchPerDate ==
    (rpc = "returned" /\ rangeErr = Nil) =>
        /\ Len(requests) = DatesInRange
        /\ Len(results) = DatesInRange
        /\ \A i \in 1 .. Len(requests) :
                NamesDay(requests[i], DayNumber(from) + i - 1)
        /\ \A i \in 1 .. Len(results) :
                NamesDay(results[i].Date, DayNumber(from) + i - 1)

\* the range fetch returned the error of a day-fetch
FetchFailed == rpc = "returned" /\ rangeErr # Nil /\ rangeErr # CtxErr

\* C21: the range fetch looks at the context between successive day-fetches:
\* while the context is cancelled no day-fetch is started, and a call that
\* finds the context cancelled when a further date is due returns the
\* records fetched so far with the context's error.
C21_CancelStopsRange ==
    [][/\ ctxDone => requests' = requests
       /\ (rpc = "check" /\ ctxDone /\ ~After(current, to) /\ rpc' # rpc) =>
             (rpc' = "returned" /\ rangeErr' = CtxErr /\ results' = results)]_vars

\* a call over several dates returned the context's error after it had
\* fetched a day, with dates of the range left
C21_Witness ==
    /\ rpc = "returned"
    /\ rangeErr = CtxErr
    /\ ctxDone
    /\ Len(results) >= 1
    /\ Len(requests) = Len(results)
    /\ Len(results) < DatesInRange

\* C30: a range fetch that returns the error of a day-fetch has issued no
\* fetch after the failed one, returns the records of the dates fetched
\* before it in order, returns an error that names the failed date and
\* wraps the error of the fetch, and returns no record of the failed date.
C30_FailureStopsRange ==
    FetchFailed =>
        /\ Len(requests) >= 1
        /\ Len(calls) = Len(requests)
        /\ calls[Len(calls)].err # Nil
        /\ rangeErr.date = requests[Len(requests)]
        /\ rangeErr.wraps = calls[Len(calls)].err
        /\ Len(results) = Len(requests) - 1
        /\ \A i \in 1 .. Len(results) :
              /\ results[i].Date = requests[i]
              /\ NamesDay(results[i].Date, DayNumber(from) + i - 1)
              /\ results[i].Date # rangeErr.date
              /\ calls[i].err = Nil
        /\ NamesDay(rangeErr.date, DayNumber(from) + Len(results))

\* a range fetch failed on its second date, with a later date left
C30_Witness ==
    /\ FetchFailed
    /\ Len(results) = 1
    /\ Len(requests) = 2
    /\ DatesInRange > 2

\* the call k went through the throttle while no other caller was in it and
\* the rate limit was not set, and has been released
Sequential(k) == calls[k].undisturbed /\ calls[k].released > 0

\* C22: two consecutive requests made one after the other through a client
\* are released at least the rate limit apart when the limit in force at
\* the later one is positive; the first request of a client does not wait,
\* and no such request waits while the limit is 0.
C22_MinimumSpacing ==
    /\ \A i \in 1 .. Len(calls) - 1 :
          (Sequential(i) /\ Sequential(i + 1) /\ calls[i + 1].limit > 0) =>
              calls[i + 1].released - calls[i].released >= calls[i + 1].limit
    /\ Len(calls) >= 1 => calls[1].slept = 0
    /\ \A i \in 1 .. Len(calls) :
          (calls[i].undisturbed /\ calls[i].limit = 0) => calls[i].slept = 0

\* a GET and a form POST made straight after each other under the default
\* limit: the second one waited for the whole interval
C22_Witness ==
    /\ Len(calls) >= 2
    /\ Sequential(1) /\ Sequential(2)
    /\ calls[1].done
    /\ calls[1].method = "GET" /\ calls[2].method = "POST"
    /\ calls[2].limit = DefaultRateLimit
    /\ calls[2].slept = DefaultRateLimit
    /\ calls[2].released - calls[1].released = DefaultRateLimit

\* C25: a call answered with the rate-limit error is tried again before the
\* error goes back to the caller.
C25_RetriesRateLimited ==
    \A i \in 1 .. Len(calls) :
        (calls[i].done /\ IsRateLimited(calls[i].err)) => calls[i].attempts > 1

\* C23: a returned resolution gives the flag when it is not empty, without
\* a read of the environment or a call of the API; otherwise the value of
\* GROWATT_PLANT_ID when it is not empty, without a call of the API;
\* otherwise it has fetched the plant list once and gives the ID of the
\* only plant, an error and no ID for no plant, and an error and no ID for
\* two or more plants.
C23_PlantIDPriority ==
    pid.pc = "returned" =>
        /\ pid.flagValue # "" =>
              (pid.id = pid.flagValue /\ pid.err = Nil /\ ~pid.envRead
                  /\ pid.apiCalls = 0)
        /\ (pid.flagValue = "" /\ pid.env # "") =>
              (pid.id = pid.env /\ pid.err = Nil /\ pid.apiCalls = 0)
        /\ (pid.flagValue = "" /\ pid.env = "") =>
              /\ pid.apiCalls = 1
              /\ pid.listErr # Nil => (pid.id = "" /\ pid.err # Nil)
              /\ (pid.listErr = Nil /\ Len(pid.plants) = 0) =>
                    (pid.id = "" /\ pid.err = ErrNoPlants)
              /\ (pid.listErr = Nil /\ Len(pid.plants) = 1) =>
                    (pid.id = pid.plants[1].PlantID /\ pid.err = Nil)
              /\ (pid.listErr = Nil /\ Len(pid.plants) >= 2) =>
                    (pid.id = "" /\ pid.err = ErrMultiplePlants)

\* the flag was given while the variable was set as well
C23_Witness ==
    /\ pid.pc = "returned"
    /\ pid.flagValue = "flag-plant-id"
    /\ pid.env = "env-plant-id"
    /\ pid.id = "flag-plant-id"

\* the run returned without an error
ExportDone == export.pc = "returned" /\ export.err = Nil

\* a statistics file was written
StatsWritten == \E f \in export.written : f.kind = "stats"

\* the number of days of the range that have samples
DaysWithSamples ==
    Cardinality({k \in 1 .. Len(powerData) : Len(powerData[k]) > 0})

\* C24 as stated: a run that succeeds has written the raw and the hourly
\* CSV, the statistics file as well when the range has more than one date,
\* and no statistics file when it has one date.
C24_StatsForEveryRange ==
    ExportDone =>
        /\ export.files.rawCSVFile \in export.written
        /\ export.files.hourlyCSVFile \in export.written
        /\ export.n > 1 => StatsWritten
        /\ export.n = 1 => ~StatsWritten

\* C24, amended: a run that succeeds has written the raw and the hourly
\* CSV; it has written the statistics file, named after the range, exactly
\* when the range has more than one date and at least two of its days have
\* samples.
C24_StatsForTwoDaysOfData ==
    ExportDone =>
        /\ export.files.rawCSVFile \in export.written
        /\ export.files.hourlyCSVFile \in export.written
        /\ StatsWritten <=> (export.n > 1 /\ DaysWithSamples >= 2)
        /\ StatsWritten =>
              FileName("stats", <<FormatDate(export.from), FormatDate(export.to)>>)
                  \in export.written

\* a range of three dates of which two have samples: three files
C24_Witness ==
    /\ ExportDone
    /\ export.n = 3
    /\ DaysWithSamples = 2
    /\ StatsWritten
    /\ Cardinality(export.written) = 3

\* the positions of the events of kind ev on the bucket of hour hr
EventsOf(ev, hr) ==
    {j \in 1 .. Len(hourly.events) :
        hourly.events[j].ev = ev /\ hourly.events[j].hour = hr}

\* the positions of all events of kind ev
EventsOfKind(ev) ==
    {j \in 1 .. Len(hourly.events) : hourly.events[j].ev = ev}

\* C26: in an AggregateToHourly call every AddValue comes after the
\* creation of all 24 buckets and before every Finalize, no bucket is
\* finalized twice, and when the call returns a result every bucket has
\* been created once and finalized once and every sample with a valid hour
\* has been added to the bucket of its hour, in input order.
C26_CreateAddFinalize ==
    /\ \A j \in EventsOfKind("Add") :
          /\ \A hr \in HourIdx : \E i \in EventsOf("New", hr) : i < j
          /\ \A i \in EventsOfKind("Finalize") : j < i
    /\ \A hr \in HourIdx :
          /\ Cardinality(EventsOf("Finalize", hr)) <= 1
          /\ Cardinality(EventsOf("New", hr)) <= 1
          /\ \A i \in EventsOf("Finalize", hr) :
                \E n \in EventsOf("New", hr) : n < i
    /\ (hourly.pc = "returned" /\ hourly.result # Nil) =>
          /\ \A hr \in HourIdx :
                /\ Cardinality(EventsOf("Finalize", hr)) = 1
                /\ Cardinality(EventsOf("New", hr)) = 1
          /\ [j \in 1 .. Len(ValidSamples(hourly.data)) |->
                  ValidSamples(hourly.data)[j].Hour]
                = [j \in 1 .. Cardinality(EventsOfKind("Add")) |->
                      hourly.events[HoursPerDay + j].hour]

\* a call on two samples of the same hour has returned: 24 creations, two
\* additions to one bucket, 24 finalizations
C26_Witness ==
    /\ hourly.pc = "returned"
    /\ Len(hourly.events) = HoursPerDay + 2 + HoursPerDay
    /\ Cardinality(EventsOf("Add", 12)) = 2
    /\ hourly.result = AggregateToHourly(hourly.data)

\* the lists that hold the samples of d in another order
Reorderings(d) ==
    { [k \in 1 .. Len(d) |-> d[f[k]]] :
        f \in { g \in [1 .. Len(d) -> 1 .. Len(d)] :
                  \A a, b \in 1 .. Len(d) : a # b => g[a] # g[b] } }

\* a float64 that is a whole number, and a list of such values: their sums
\* are exact as long as they stay below 2^53
IsWhole(x) == x.s = 0 \/ x.e >= 0
AllWhole(seq) == \A k \in 1 .. Len(seq) : IsWhole(seq[k])

\* C27 as stated: the result of AggregateToHourly on a non-empty list and
\* its result on any reordering of the list have the same Date and, for
\* every hour, the same Samples, Min, Max, Sum and Mean.
C27_OrderIndependent ==
    (op = "AggregateToHourly" /\ Len(data) > 0) =>
        \A e \in Reorderings(data) :
            LET r == AggregateToHourly(e)
            IN  /\ r # Nil
                /\ r.Date = stats.Date
                /\ \A hr \in HourIdx :
                      /\ r.Hours[hr].Samples = stats.Hours[hr].Samples
                      /\ r.Hours[hr].Min = stats.Hours[hr].Min
                      /\ r.Hours[hr].Max = stats.Hours[hr].Max
                      /\ r.Hours[hr].Sum = stats.Hours[hr].Sum
                      /\ r.Hours[hr].Mean = stats.Hours[hr].Mean

\* C27 as amended: the result of AggregateToHourly on a non-empty list and
\* its result on any reordering of the list have the same Date and, for
\* every hour, the same Samples, Min and Max; Sum and Mean are the same as
\* well for every hour that holds at most two samples or only whole numbers
\* of watts.
C27_OrderIndependentSums ==
    (op = "AggregateToHourly" /\ Len(data) > 0) =>
        \A e \in Reorderings(data) :
            LET r == AggregateToHourly(e)
            IN  /\ r # Nil
                /\ r.Date = stats.Date
                /\ \A hr \in HourIdx :
                      /\ r.Hours[hr].Samples = stats.Hours[hr].Samples
                      /\ r.Hours[hr].Min = stats.Hours[hr].Min
                      /\ r.Hours[hr].Max = stats.Hours[hr].Max
                      /\ (stats.Hours[hr].Samples <= 2
                            \/ AllWhole(stats.Hours[hr].Values)) =>
                            /\ r.Hours[hr].Sum = stats.Hours[hr].Sum
                            /\ r.Hours[hr].Mean = stats.Hours[hr].Mean

\* three whole readings of one hour, the largest one first: the reversed
\* list gives another list of values and the same sum
C27_Witness ==
    /\ op = "AggregateToHourly"
    /\ Len(data) = 3
    /\ \A k \in 1 .. 3 : data[k].Hour = 12 /\ IsWhole(data[k].Power)
    /\ RGt(data[1].Power, data[2].Power)
    /\ stats.Hours[12].Samples = 3
    /\ stats.Hours[12].Max = data[1].Power
    /\ AggregateToHourly(<<data[3], data[2], data[1]>>).Hours[12].Values
            # stats.Hours[12].Values
    /\ AggregateToHourly(<<data[3], data[2], data[1]>>).Hours[12].Sum
            = stats.Hours[12].Sum

\* C28: for every hour, SampleDays of the result of AggregateDays is the
\* number of the days given whose bucket of that hour holds samples, Values
\* (the list of per-day means) holds the mean of each such day in input
\* order, and 0 <= SampleDays = Len(Values) <= DaysAnalyzed.
C28_SampleDaysCountsDays ==
    multiDay # Nil =>
        \A hr \in HourIdx :
            LET a == multiDay.ByHour[hr]
            IN  /\ a.SampleDays
                      = Cardinality({k \in 1 .. Len(days) :
                                        days[k].Hours[hr].Samples > 0})
                /\ a.Values = DayMeans(days, hr)
                /\ 0 <= a.SampleDays
                /\ a.SampleDays = Len(a.Values)
                /\ a.SampleDays <= multiDay.DaysAnalyzed

\* three days of which the first and the last have samples at noon, with
\* different means
C28_Witness ==
    /\ multiDay # Nil
    /\ multiDay.DaysAnalyzed = 3
    /\ days[1].Hours[12].Samples > 0
    /\ days[2].Hours[12].Samples = 0
    /\ days[3].Hours[12].Samples > 0
    /\ multiDay.ByHour[12].SampleDays = 2
    /\ multiDay.ByHour[12].Values
            = <<days[1].Hours[12].Mean, days[3].Hours[12].Mean>>
    /\ days[1].Hours[12].Mean # days[3].Hours[12].Mean

\* x occurs in the list seq
Occurs(x, seq) == \E k \in 1 .. Len(seq) : seq[k] = x

\* C29 as stated: every bucket of every DailyStats has Min <= Mean <= Max,
\* and with samples Mean * Samples = Sum and Min and Max among its Values;
\* every hour of a MultiDayStats over these days has Min <= Average <= Max
\* and Min <= Median <= Max.
C29_OrderedStatistics ==
    /\ \A k \in 1 .. Len(days) :
          \A hr \in HourIdx :
              LET b == days[k].Hours[hr]
              IN  /\ RLe(b.Min, b.Mean)
                  /\ RLe(b.Mean, b.Max)
                  /\ b.Samples > 0 =>
                        /\ RMul(b.Mean, Rat(b.Samples)) = b.Sum
                        /\ Occurs(b.Min, b.Values)
                        /\ Occurs(b.Max, b.Values)
    /\ multiDay # Nil =>
          \A hr \in HourIdx :
              LET a == multiDay.ByHour[hr]
              IN  /\ RLe(a.Min, a.Average)
                  /\ RLe(a.Average, a.Max)
                  /\ RLe(a.Min, a.Median)
                  /\ RLe(a.Median, a.Max)

\* C29 as amended: every bucket with samples of every DailyStats has
\* Mean = Sum / Samples (the float64 quotient) and Min and Max among its
\* Values; a bucket whose values are whole numbers of watts has
\* Min <= Mean <= Max, and an hour of a MultiDayStats whose samples are
\* whole numbers of watts on every day has Min <= Average <= Max and
\* Min <= Median <= Max.
C29_OrderedWholeStatistics ==
    /\ \A k \in 1 .. Len(days) :
          \A hr \in HourIdx :
              LET b == days[k].Hours[hr]
              IN  /\ b.Samples > 0 =>
                        /\ b.Mean = RDivInt(b.Sum, b.Samples)
                        /\ Occurs(b.Min, b.Values)
                        /\ Occurs(b.Max, b.Values)
                  /\ AllWhole(b.Values) =>
                        /\ RLe(b.Min, b.Mean)
                        /\ RLe(b.Mean, b.Max)
    /\ multiDay # Nil =>
          \A hr \in HourIdx :
              LET a == multiDay.ByHour[hr]
              IN  (\A k \in 1 .. Len(days) : AllWhole(days[k].Hours[hr].Values)) =>
                      /\ RLe(a.Min, a.Average)
                      /\ RLe(a.Average, a.Max)
                      /\ RLe(a.Min, a.Median)
                      /\ RLe(a.Median, a.Max)

\* a day with two different readings at noon and a second day with one:
\* the means lie strictly between the extremes
C29_Witness ==
    /\ multiDay # Nil
    /\ Len(days) = 2
    /\ days[1].Hours[12].Samples = 2
    /\ AllWhole(days[1].Hours[12].Values)
    /\ AllWhole(days[2].Hours[12].Values)
    /\ RLt(days[1].Hours[12].Min, days[1].Hours[12].Mean)
    /\ RLt(days[1].Hours[12].Mean, days[1].Hours[12].Max)
    /\ multiDay.ByHour[12].SampleDays = 2
    /\ RLt(multiDay.ByHour[12].Min, multiDay.ByHour[12].Average)
    /\ RLt(multiDay.ByHour[12].Median, multiDay.ByHour[12].Max)

====
